---- MODULE Spec2Model ----
(***************************************************************************)
(* Model of the analysis engine of larkracl/AutoDebugging                  *)
(* (findruntimeerr/scripts): the symbol table (symbol_table.py), the       *)
(* Linter with its diagnostic sink, parso / astroid traversals and call    *)
(* graph (core.py), and the analyze_code facade (core.py).                 *)
(***************************************************************************)
EXTENDS Integers, Sequences, FiniteSets, TLC

VARIABLES
    scopes,     \* symbol table heap: scope id -> Scope object (symbol_table.py)
    ret,        \* value returned by the last Scope.lookup call
    op,         \* the last symbol-table operation and its arguments
    defLog,     \* per scope, the symbols passed to define, in call order
    pc,         \* position of the running analyze_code call ("idle" between calls)
    input,      \* (code, mode) of the current call and what its collaborators do
    linter,     \* the Linter object of the current call (core.py)
    syntax_errors,   \* analyze_code local: syntax errors of the tolerant parser
    tree,       \* analyze_code local: parso_tree / astroid_tree is not None
    final_errors,    \* analyze_code local
    call_graph_data, \* analyze_code local
    result,     \* the object returned by the last completed call
    remembered, \* (input, result) of one earlier call, kept for comparison
    call,       \* the last direct call of a checker or helper, with its arguments
    out,        \* what that call reported or returned
    suspended   \* the local variables of a second, suspended analyze_code call

scopeVars == <<scopes, ret, op, defLog>>

facadeVars == <<pc, input, linter, syntax_errors, tree, final_errors,
                call_graph_data, result, remembered>>

unitVars == <<call, out>>

vars == <<scopes, ret, op, defLog, pc, input, linter, syntax_errors, tree,
          final_errors, call_graph_data, result, remembered, call, out,
          suspended>>

(***************************************************************************)
(* Bounds                                                                  *)
(***************************************************************************)
MaxScopes == 3
MaxDefines == 3
MaxFaults == 1       \* checker invocations that raise, per call
MaxSynErrs == 2      \* syntax errors the tolerant parser reports, per source

(***************************************************************************)
(* symbol_table.py                                                         *)
(***************************************************************************)
\* Names used by the symbol-table operations; "len" is a host built-in.
Names == {"x", "len"}

\* hasattr(builtins, name): the names of the host's builtins module that the
\* model uses.
Builtins == {"len", "print"}

\* class SymbolType(Enum)
SymbolType == {"VARIABLE", "FUNCTION", "CLASS", "PARAMETER", "MODULE",
               "IMPORTED_NAME", "BUILTIN"}

\* Python's None where a Symbol is expected.
None == [name |-> "", type |-> "None", def_node |-> 0]

\* Symbol.__init__(name, symbol_type, def_node); def_node 0 is None.
Symbol(name, symbol_type, def_node) ==
    [name |-> name, type |-> symbol_type, def_node |-> def_node]

\* Scope.parent = None
NoScope == 0

\* A Scope.__init__ that forgets the parent it is given.
Scope_without_parent(scope_node, parent_scope) ==
    [node |-> scope_node, parent |-> NoScope, symbols |-> <<>>]

\* Scope.__init__(scope_node, parent_scope): symbols starts as the empty dict.
Scope(scope_node, parent_scope) ==
    [node |-> scope_node, parent |-> parent_scope, symbols |-> <<>>]

\* Scope.define(symbol) applied to the symbols dict m: self.symbols[name] = symbol
define_first_wins(m, symbol) ==
    IF symbol.name \in DOMAIN m THEN m
    ELSE [n \in (DOMAIN m) \cup {symbol.name} |->
            IF n = symbol.name THEN symbol ELSE m[n]]

define(m, symbol) ==
    [n \in (DOMAIN m) \cup {symbol.name} |->
        IF n = symbol.name THEN symbol ELSE m[n]]

\* The heap after scope s has executed define(symbol).
heap_define(h, s, symbol) ==
    [h EXCEPT ![s].symbols = define(h[s].symbols, symbol)]

\* Scope.lookup(name, search_parents) on scope s of heap h.  The result
\* carries the returned value and the heap as the call leaves it.
RECURSIVE lookup_builtin_first(_, _, _, _)
lookup_builtin_first(h, s, name, search_parents) ==
    IF name \in DOMAIN h[s].symbols
    THEN [ret |-> h[s].symbols[name], heap |-> h]
    ELSE IF name \in Builtins
    THEN [ret |-> Symbol(name, "BUILTIN", 0), heap |-> h]
    ELSE IF search_parents /\ h[s].parent # NoScope
    THEN lookup_builtin_first(h, h[s].parent, name, TRUE)
    ELSE [ret |-> None, heap |-> h]

RECURSIVE lookup_caching(_, _, _, _)
lookup_caching(h, s, name, search_parents) ==
    IF name \in DOMAIN h[s].symbols
    THEN [ret |-> h[s].symbols[name], heap |-> h]
    ELSE IF search_parents /\ h[s].parent # NoScope
    THEN LET r == lookup_caching(h, h[s].parent, name, TRUE)
         IN  IF r.ret = None THEN r
             ELSE [ret |-> r.ret, heap |-> heap_define(r.heap, s, r.ret)]
    ELSE IF name \in Builtins
    THEN [ret |-> Symbol(name, "BUILTIN", 0), heap |-> h]
    ELSE [ret |-> None, heap |-> h]

RECURSIVE lookup(_, _, _, _)
lookup(h, s, name, search_parents) ==
    IF name \in DOMAIN h[s].symbols
    THEN [ret |-> h[s].symbols[name], heap |-> h]
    ELSE IF search_parents /\ h[s].parent # NoScope
    THEN lookup(h, h[s].parent, name, TRUE)
    ELSE IF name \in Builtins
    THEN [ret |-> Symbol(name, "BUILTIN", 0), heap |-> h]
    ELSE [ret |-> None, heap |-> h]

(***************************************************************************)
(* checkers/__init__.py: the registered checker classes                    *)
(***************************************************************************)
\* RT_CHECKERS_CLASSES, in registration order.  legacy: check(self, node)
\* takes no scope argument.
RT_CHECKERS_CLASSES == <<
    [NAME |-> "rt-name-error-parso", node_types |-> {"name"},
     legacy |-> FALSE],
    [NAME |-> "rt-zero-division-parso",
     node_types |-> {"term", "arith_expr", "power"}, legacy |-> TRUE] >>

\* STATIC_CHECKERS_CLASSES, in registration order.  msg is the id the checker
\* reports (MSG_ID_PREFIX + key); recursion: the class has a
\* check_function_recursion method.
STATIC_CHECKERS_CLASSES == <<
    [NAME |-> "static-name-error", node_types |-> {"Name"},
     msg |-> "E0102", recursion |-> FALSE],
    [NAME |-> "static-type-error", node_types |-> {"BinOp"},
     msg |-> "E0301", recursion |-> FALSE],
    [NAME |-> "static-attribute-error", node_types |-> {"Attribute"},
     msg |-> "E0401", recursion |-> FALSE],
    [NAME |-> "static-index-error", node_types |-> {"Subscript"},
     msg |-> "E0501", recursion |-> FALSE],
    [NAME |-> "static-key-error", node_types |-> {"Subscript"},
     msg |-> "E0601", recursion |-> FALSE],
    [NAME |-> "static-infinite-loop", node_types |-> {"While"},
     msg |-> "W0701", recursion |-> FALSE],
    [NAME |-> "static-file-not-found", node_types |-> {"Call"},
     msg |-> "E0801", recursion |-> FALSE],
    [NAME |-> "static-zero-division", node_types |-> {"BinOp"},
     msg |-> "E0201", recursion |-> FALSE] >>

(***************************************************************************)
(* Source texts.  A source text is known to the engine through the trees   *)
(* its two parsers build; the model keeps a small set of them.             *)
(***************************************************************************)
\* A position whose attributes cannot be read (the access raises).
BadPos == <<-1, -1, -1, -1>>
\* node is None
NonePos == <<-2, -2, -2, -2>>

\* Trees of the tolerant parser.  Per node: parso type, children, value of a
\* leaf, (start_pos, end_pos) as <<line, col, to_line, end_col>>; binds: the
\* names the scope builder records for a scope-defining node; is_attribute /
\* is_keyword: the name leaves that are the attribute of a trailer / the name
\* of a keyword argument; divzero: for a term, the right operand of its first
\* / or // when that is a zero literal.
\*   1:  def f(x):
\*           return y / 0
\*       f
\*   2:  class C:
\*           lambda: z
\*       ( q
\*   3:  g = 1
\*       def f(x):
\*           y = 1
\*           return x + y + g + len
\*       while True:
\*           pass
ParsoTrees == <<
    [type     |-> <<"file_input", "funcdef", "name", "name", "term", "name",
                    "number", "name">>,
     children |-> << <<2, 8>>, <<3, 4, 5>>, <<>>, <<>>, <<6, 7>>, <<>>, <<>>,
                     <<>> >>,
     value    |-> <<"", "", "f", "x", "", "y", "0", "f">>,
     pos      |-> << <<1, 0, 3, 1>>, <<1, 0, 3, 0>>, <<1, 4, 1, 5>>,
                     <<1, 6, 1, 7>>, <<2, 11, 2, 16>>, <<2, 11, 2, 12>>,
                     <<2, 15, 2, 16>>, <<3, 0, 3, 1>> >>,
     binds    |-> << << <<"f", "FUNCTION">> >>, << <<"x", "PARAMETER">> >>,
                     <<>>, <<>>, <<>>, <<>>, <<>>, <<>> >>,
     is_attribute |-> {}, is_keyword |-> {},
     divzero  |-> <<0, 0, 0, 0, 7, 0, 0, 0>>],
    [type     |-> <<"file_input", "classdef", "name", "lambdef", "name",
                    "error_node", "name">>,
     children |-> << <<2, 6>>, <<3, 4>>, <<>>, <<5>>, <<>>, <<7>>, <<>> >>,
     value    |-> <<"", "", "C", "", "z", "", "q">>,
     pos      |-> << <<1, 0, 3, 3>>, <<1, 0, 3, 0>>, <<1, 6, 1, 7>>,
                     <<2, 4, 2, 13>>, <<2, 12, 2, 13>>, <<3, 0, 3, 3>>,
                     <<3, 2, 3, 3>> >>,
     binds    |-> << << <<"C", "CLASS">> >>, <<>>, <<>>, <<>>, <<>>, <<>>,
                     <<>> >>,
     is_attribute |-> {}, is_keyword |-> {},
     divzero  |-> <<0, 0, 0, 0, 0, 0, 0>>],
    [type     |-> <<"file_input", "expr_stmt", "name", "number", "funcdef",
                    "name", "name", "expr_stmt", "name", "number",
                    "arith_expr", "name", "name", "name", "name",
                    "while_stmt", "keyword", "keyword">>,
     children |-> << <<2, 5, 16>>, <<3, 4>>, <<>>, <<>>, <<6, 7, 8, 11>>,
                     <<>>, <<>>, <<9, 10>>, <<>>, <<>>, <<12, 13, 14, 15>>,
                     <<>>, <<>>, <<>>, <<>>, <<17, 18>>, <<>>, <<>> >>,
     value    |-> <<"", "", "g", "1", "", "f", "x", "", "y", "1", "", "x",
                    "y", "g", "len", "", "True", "pass">>,
     pos      |-> << <<1, 0, 7, 0>>, <<1, 0, 1, 5>>, <<1, 0, 1, 1>>,
                     <<1, 4, 1, 5>>, <<2, 0, 5, 0>>, <<2, 4, 2, 5>>,
                     <<2, 6, 2, 7>>, <<3, 4, 3, 9>>, <<3, 4, 3, 5>>,
                     <<3, 8, 3, 9>>, <<4, 11, 4, 26>>, <<4, 11, 4, 12>>,
                     <<4, 15, 4, 16>>, <<4, 19, 4, 20>>, <<4, 23, 4, 26>>,
                     <<5, 0, 7, 0>>, <<5, 6, 5, 10>>, <<6, 4, 6, 8>> >>,
     binds    |-> << << <<"g", "VARIABLE">>, <<"f", "FUNCTION">> >>, <<>>,
                     <<>>, <<>>,
                     << <<"x", "PARAMETER">>, <<"y", "VARIABLE">> >>, <<>>,
                     <<>>, <<>>, <<>>, <<>>, <<>>, <<>>, <<>>, <<>>, <<>>,
                     <<>>, <<>>, <<>> >>,
     is_attribute |-> {}, is_keyword |-> {},
     divzero  |-> <<0, 0, 0, 0, 0, 0, 0, 0, 0, 0, 0, 0, 0, 0, 0, 0, 0,
                    0>>] >>

\* Trees of the inferring parser.  Per node: astroid class, children,
\* (fromlineno, col_offset, tolineno, end_col_offset) with 0 for None;
\* qname of a FunctionDef / ClassDef / Module; for a Call, the qname its
\* callee infers to ("" when it does not, "RAISE" when inference raises
\* something other than InferenceError) and whether it is a bound method;
\* rec_call: for a FunctionDef, the callee Name of the first call to its own
\* name made in its own scope (0: none);
\* finding: per checker, the node the checker's heuristic reports (0: none).
\*   1:  def f(a):
\*           return f(a) / 0
\*       class C: pass
\*   2:  g(u)
\*       1 + ""
AstroidTrees == <<
    [type     |-> <<"Module", "FunctionDef", "BinOp", "Call", "Name",
                    "ClassDef", "Const">>,
     children |-> << <<2, 6>>, <<3>>, <<4, 7>>, <<5>>, <<>>, <<>>, <<>> >>,
     pos      |-> << <<0, 0, 3, 0>>, <<1, 0, 2, 19>>, <<2, 11, 2, 19>>,
                     <<2, 11, 2, 15>>, <<2, 11, 2, 12>>, <<3, 0, 3, 13>>,
                     <<2, 18, 2, 19>> >>,
     qname    |-> <<"m", "m.f", "", "", "", "m.C", "">>,
     scope    |-> <<1, 2, 2, 2, 2, 6, 2>>,
     infer    |-> <<"", "", "", "m.f", "", "", "">>,
     bound    |-> <<FALSE, FALSE, FALSE, FALSE, FALSE, FALSE, FALSE>>,
     rec_call |-> <<0, 5, 0, 0, 0, 0, 0>>,
     finding  |-> << <<0, 0, 0, 0, 0, 0, 0>>, <<0, 0, 0, 0, 0, 0, 0>>,
                     <<0, 0, 0, 0, 0, 0, 0>>, <<0, 0, 0, 0, 0, 0, 0>>,
                     <<0, 0, 0, 0, 0, 0, 0>>, <<0, 0, 0, 0, 0, 0, 0>>,
                     <<0, 0, 0, 0, 0, 0, 0>>, <<0, 0, 7, 0, 0, 0, 0>> >>],
    [type     |-> <<"Module", "Call", "Name", "BinOp">>,
     children |-> << <<2, 4>>, <<3>>, <<>>, <<>> >>,
     pos      |-> << <<0, 0, 2, 0>>, <<1, 0, 1, 4>>, <<1, 0, 1, 1>>,
                     <<2, 0, 2, 6>> >>,
     qname    |-> <<"m", "", "", "">>,
     scope    |-> <<1, 1, 1, 1>>,
     infer    |-> <<"", "RAISE", "", "">>,
     bound    |-> <<FALSE, FALSE, FALSE, FALSE>>,
     rec_call |-> <<0, 0, 0, 0>>,
     finding  |-> << <<0, 0, 3, 0>>, <<0, 0, 0, 4>>, <<0, 0, 0, 0>>,
                     <<0, 0, 0, 0>>, <<0, 0, 0, 0>>, <<0, 0, 0, 0>>,
                     <<0, 0, 0, 0>>, <<0, 0, 0, 0>> >>] >>

\* The k-th syntax error the tolerant parser reports (one per line):
\* start_pos and end_pos of the offending node.
SynErr(k) == [message |-> "invalid syntax",
              start_pos |-> <<2 + k, 2 * (k - 1)>>,
              end_pos |-> <<2 + k, k>>]

(***************************************************************************)
(* core.py: the diagnostic sink                                            *)
(***************************************************************************)
Maxi(a, b) == IF a >= b THEN a ELSE b

\* a or b, for integers and None (0)
Or(a, b) == IF a = 0 THEN b ELSE a

Diag(message, msg_id, p) ==
    [message |-> message, line |-> p[1], column |-> p[2], to_line |-> p[3],
     end_column |-> p[4], errorType |-> msg_id,
     _key |-> <<msg_id, p[1], p[2], p[3], p[4]>>]

\* not any(err.get('_key') == key for err in self.errors)
HasKey(errors, key) ==
    \E i \in 1..Len(errors) :
        "_key" \in DOMAIN errors[i] /\ errors[i]._key = key

AppendUnlessKey(errors, d) ==
    IF HasKey(errors, d._key) THEN errors ELSE Append(errors, d)

\* A variant of lines 131-135 that clamps the start only.
parso_position_start_only(pos) ==
    IF pos = NonePos \/ pos = BadPos THEN <<1, 0, 1, 1>>
    ELSE <<Maxi(1, pos[1]), Maxi(0, pos[2]), pos[3], pos[4]>>

\* Lines 131-135: the position add_message stores for a node whose
\* (start_pos, end_pos) is pos; (1, 0, 1, 1) for None, and in the fallback
\* of lines 139-143 when reading the position raises.
parso_position(pos) ==
    IF pos = NonePos \/ pos = BadPos THEN <<1, 0, 1, 1>>
    ELSE <<Maxi(1, pos[1]), Maxi(0, pos[2]),
           Maxi(Maxi(1, pos[1]), pos[3]),
           Maxi(Maxi(0, pos[2]) + 1, pos[4])>>

\* Lines 147-149: the same for an astroid node, pos being (fromlineno,
\* col_offset, tolineno, end_col_offset) with 0 for None.
astroid_position(pos) ==
    IF pos = BadPos THEN <<1, 0, 1, 1>>
    ELSE LET line == Maxi(1, Or(pos[1], 1))
             col == Maxi(0, Or(pos[2], 0))
         IN  <<line, col,
               Maxi(line, Or(pos[3], Or(pos[1], 1))),
               Maxi(col + 1, Or(pos[4], Or(pos[2], 0) + 1))>>

\* An add_message that appends without looking for the key.
add_message_no_dedup(errors, msg_id, pos, message) ==
    Append(errors, Diag(message, msg_id, parso_position(pos)))

\* Linter.add_message(msg_id, node, message) on the list self.errors
add_message(errors, msg_id, pos, message) ==
    AppendUnlessKey(errors, Diag(message, msg_id, parso_position(pos)))

\* Linter.add_astroid_message(msg_id, node, message)
add_astroid_message(errors, msg_id, pos, message) ==
    AppendUnlessKey(errors, Diag(message, msg_id, astroid_position(pos)))

\* The Linter after self.add_message(...): the sink, plus a count of the
\* calls made to it.
LAdd(L, msg_id, pos, message) ==
    [L EXCEPT !.errors = add_message(@, msg_id, pos, message),
              !.attempts = @ + 1]

LAddAstroid(L, msg_id, pos, message) ==
    [L EXCEPT !.errors = add_astroid_message(@, msg_id, pos, message),
              !.attempts = @ + 1]

(***************************************************************************)
(* The arguments of one analyze_code call and the behaviour of its         *)
(* collaborators during that call                                          *)
(***************************************************************************)
\* I.faults: the (checker, node) invocations of check that raise;
\* I.fault_kind: what they raise: "raise" an Exception, "typeerr" a
\* TypeError, "arity" a TypeError whose text is the positional-argument
\* mismatch.  "run": the checker runs its own code.
FaultKind(I, c, node) ==
    IF <<c, node>> \in I.faults THEN I.fault_kind ELSE "run"

(***************************************************************************)
(* core.py: Linter.__init__, _load_parso_checkers                          *)
(***************************************************************************)
\* nx.DiGraph()
EmptyGraph == [nodes |-> <<>>, edges |-> <<>>]

RECURSIVE load_parso_checkers(_, _, _)
load_parso_checkers(L, I, i) ==
    IF ~L.grammar \/ i > Len(RT_CHECKERS_CLASSES) THEN L
    ELSE load_parso_checkers(
            IF i \in I.rt_init_fail
            THEN LAdd(L, "CheckerInitError", NonePos,
                      "Error initializing parso checker")
            ELSE [L EXCEPT !.parso_checkers = Append(@, i)],
            I, i + 1)

\* Linter(), constructed while prev, the Linter of the previous call, is
\* still in memory.  attempts, log and exc are bookkeeping of the model: the
\* number of add_message calls, the checker invocations and node visits in
\* order, and whether an exception is propagating.
Linter__init__shared_errors(prev, I) ==
    load_parso_checkers(
        [parso_checkers |-> <<>>, astroid_checkers |-> <<>>,
         errors |-> prev.errors,
         call_graph |-> EmptyGraph, grammar |-> I.grammar_ok,
         root_scope |-> NoScope, scope_map |-> <<>>,
         attempts |-> 0, log |-> <<>>, exc |-> FALSE],
        I, 1)

Linter__init__(prev, I) ==
    load_parso_checkers(
        [parso_checkers |-> <<>>, astroid_checkers |-> <<>>, errors |-> <<>>,
         call_graph |-> EmptyGraph, grammar |-> I.grammar_ok,
         root_scope |-> NoScope, scope_map |-> <<>>,
         attempts |-> 0, log |-> <<>>, exc |-> FALSE],
        I, 1)

(***************************************************************************)
(* utils.populate_scope_from_parso, rt_checkers/*.py                       *)
(***************************************************************************)
RECURSIVE define_all(_, _, _, _)
define_all(h, s, bs, i) ==
    IF i > Len(bs) THEN h
    ELSE define_all(heap_define(h, s, Symbol(bs[i][1], bs[i][2], s)),
                    s, bs, i + 1)

\* populate_scope_from_parso(scope): defines one symbol per name bound
\* directly in the scope's node; I.pop_raise is the scope node on which the
\* walk raises.
populate_scope_from_parso(L, I, node) ==
    IF I.pop_raise = node THEN [L EXCEPT !.exc = TRUE]
    ELSE [L EXCEPT !.scope_map =
              define_all(@, node, ParsoTrees[I.code].binds[node], 1)]

\* node.parent (0 for the root)
Parent(T, n) ==
    IF \E p \in 1..Len(T.children) :
          \E i \in 1..Len(T.children[p]) : T.children[p][i] = n
    THEN CHOOSE p \in 1..Len(T.children) :
          \E i \in 1..Len(T.children[p]) : T.children[p][i] = n
    ELSE 0

\* RTNameErrorParsoChecker.check, lines 99-105: the walk over temp_parent
RECURSIVE under_error_node(_, _)
under_error_node(T, p) ==
    IF p = 0 THEN FALSE
    ELSE IF T.type[p] = "error_node" THEN TRUE
    ELSE IF T.type[p] \in {"funcdef", "classdef", "file_input"} THEN FALSE
    ELSE under_error_node(T, Parent(T, p))

\* A variant of lines 108-110 that never reports.
report_nothing(L, pos, r) == [L EXCEPT !.scope_map = r.heap]

\* RTNameErrorParsoChecker.check, lines 108-110: r is what lookup returned.
report_if_undefined(L, pos, r) ==
    IF r.ret = None
    THEN LAdd([L EXCEPT !.scope_map = r.heap], "E0101", pos,
              "NameError: Name is not defined (RT-Parso)")
    ELSE [L EXCEPT !.scope_map = r.heap]

\* A variant of the check that looks the name up in the current scope only.
rt_name_error_check_local_only(L, I, node, current_scope) ==
    LET T == ParsoTrees[I.code]
    IN  IF T.value[node] \in Builtins THEN L
        ELSE IF node \in T.is_attribute THEN L
        ELSE IF node \in T.is_keyword THEN L
        ELSE IF under_error_node(T, Parent(T, node)) THEN L
        ELSE IF current_scope = NoScope THEN L
        ELSE report_if_undefined(L, T.pos[node],
                lookup(L.scope_map, current_scope, T.value[node], FALSE))

\* RTNameErrorParsoChecker.check(node, current_scope)
rt_name_error_check(L, I, node, current_scope) ==
    LET T == ParsoTrees[I.code]
    IN  IF T.value[node] \in Builtins THEN L
        ELSE IF node \in T.is_attribute THEN L
        ELSE IF node \in T.is_keyword THEN L
        ELSE IF under_error_node(T, Parent(T, node)) THEN L
        ELSE IF current_scope = NoScope THEN L
        ELSE report_if_undefined(L, T.pos[node],
                lookup(L.scope_map, current_scope, T.value[node], TRUE))

\* RTZeroDivisionParsoChecker.check(node)
rt_zero_division_check(L, I, node) ==
    LET T == ParsoTrees[I.code]
    IN  IF T.divzero[node] # 0
        THEN LAdd(L, "E0201", T.pos[T.divzero[node]],
                  "Potential ZeroDivisionError: Division by zero (RT-Parso)")
        ELSE L

(***************************************************************************)
(* core.py: Linter._build_and_visit_parso, Linter.analyze_parso            *)
(***************************************************************************)
\* Lines 70-88: one checker on one node, with the handlers around it (the log
\* keeps the scope argument of the call before the call itself).  A
\* legacy checker is reached through the retry of line 79, and so is a
\* checker whose own TypeError carries the arity text; the retry of the
\* latter lacks the scope argument and raises.
run_parso_checker(L, I, c, node, new_scope) ==
    LET pos == ParsoTrees[I.code].pos[node]
        fk == FaultKind(I, c, node)
        L0 == [L EXCEPT !.log = @ \o << <<"scope", node, new_scope>>,
                                         <<"check", c, node>> >>]
    IN  IF fk = "run"
        THEN IF c = 1 THEN rt_name_error_check(L0, I, node, new_scope)
             ELSE rt_zero_division_check(L0, I, node)
        ELSE IF RT_CHECKERS_CLASSES[c].legacy \/ fk = "arity"
        THEN LAdd(L0, "InternalParsoCheckerError", pos,
                  "Error in legacy parso checker")
        ELSE IF fk = "typeerr"
        THEN LAdd(L0, "InternalParsoCheckerError", pos,
                  "TypeError in parso checker")
        ELSE LAdd(L0, "InternalParsoCheckerError", pos,
                  "Error in parso checker")

\* Lines 68-88: for checker in self.parso_checkers, from the k-th on.
RECURSIVE dispatch_parso(_, _, _, _, _)
dispatch_parso(L, I, node, new_scope, k) ==
    IF k > Len(L.parso_checkers) THEN L
    ELSE LET c == L.parso_checkers[k]
             nt == RT_CHECKERS_CLASSES[c].node_types
             L1 == IF nt = {} \/ ParsoTrees[I.code].type[node] \in nt
                   THEN run_parso_checker(L, I, c, node, new_scope)
                   ELSE L
         IN  dispatch_parso(L1, I, node, new_scope, k + 1)

RECURSIVE build_and_visit_parso(_, _, _, _)
RECURSIVE visit_children_parso(_, _, _, _, _)

\* Lines 91-94: for child in node.children, from the i-th on.
visit_children_parso(L, I, cs, new_scope, i) ==
    IF L.exc \/ i > Len(cs) THEN L
    ELSE visit_children_parso(build_and_visit_parso(L, I, cs[i], new_scope),
                              I, cs, new_scope, i + 1)

\* Lines 68-94: the checkers on the node, then its children; skipped when
\* populate_scope_from_parso has raised.
check_and_descend(L, I, node, new_scope) ==
    IF L.exc THEN L
    ELSE visit_children_parso(dispatch_parso(L, I, node, new_scope, 1), I,
                              ParsoTrees[I.code].children[node], new_scope, 1)

\* Linter._build_and_visit_parso(node, current_scope)
build_and_visit_parso(L, I, node, current_scope) ==
    LET defines == ParsoTrees[I.code].type[node]
                      \in {"funcdef", "classdef", "lambdef"}
        L0 == [L EXCEPT !.log = Append(@, <<"visit", node, 0>>)]
    IN  IF L.exc THEN L
        ELSE check_and_descend(
                IF defines /\ node \notin DOMAIN L.scope_map
                THEN populate_scope_from_parso(
                        [L0 EXCEPT !.scope_map =
                            [n \in (DOMAIN @) \cup {node} |->
                                IF n = node THEN Scope(node, current_scope)
                                ELSE @[n]]],
                        I, node)
                ELSE L0,
                I, node, IF defines THEN node ELSE current_scope)

\* Lines 124-126 and 203: except Exception around a traversal.
except_Exception(L, msg_id) ==
    IF L.exc
    THEN LAdd([L EXCEPT !.exc = FALSE], msg_id, NonePos, "Error")
    ELSE L

\* Lines 114-123: the root scope, its symbols, then the traversal.
parso_traversal(L, I) ==
    build_and_visit_parso(
        populate_scope_from_parso(
            [L EXCEPT !.root_scope = 1,
                      !.scope_map = (1 :> Scope(1, NoScope))], I, 1),
        I, 1, 1)

\* Linter.analyze_parso(tree) without its try / except
analyze_parso_unguarded(L, I) ==
    IF ~L.grammar
    THEN LAdd(L, "ParsoSetupError", NonePos,
              "Parso grammar not loaded, cannot perform Parso analysis.")
    ELSE parso_traversal(L, I)

\* Linter.analyze_parso(tree); the module node is node 1.
analyze_parso(L, I) ==
    IF ~L.grammar
    THEN LAdd(L, "ParsoSetupError", NonePos,
              "Parso grammar not loaded, cannot perform Parso analysis.")
    ELSE except_Exception(parso_traversal(L, I), "ParsoTraversalError")

(***************************************************************************)
(* core.py: call graph                                                     *)
(***************************************************************************)
Put(f, k, v) == [x \in (DOMAIN f) \cup {k} |-> IF x = k THEN v ELSE f[x]]

Range(q) == {q[i] : i \in 1..Len(q)}

\* An add_node_to_graph that overwrites the attributes a node already has.
add_node_to_graph_overwrite(G, node_name, kw) ==
    IF node_name = "" THEN G
    ELSE IF node_name \notin DOMAIN G.nodes
    THEN [G EXCEPT !.nodes = Put(@, node_name, kw)]
    ELSE [G EXCEPT !.nodes =
             Put(@, node_name,
                 [k \in (DOMAIN G.nodes[node_name]) \cup (DOMAIN kw) |->
                     IF k \in DOMAIN kw THEN kw[k]
                     ELSE G.nodes[node_name][k]])]

\* Linter.add_node_to_graph(node_name, **kw); kw has keys among type, lineno
\* (lineno 0 is None).
add_node_to_graph(G, node_name, kw) ==
    IF node_name = "" THEN G
    ELSE IF node_name \notin DOMAIN G.nodes
    THEN [G EXCEPT !.nodes = Put(@, node_name, kw)]
    ELSE LET nd == G.nodes[node_name]
             setType == /\ "type" \in DOMAIN kw
                        /\ ("type" \notin DOMAIN nd \/ nd.type = "unknown")
             setLine == /\ "lineno" \in DOMAIN kw
                        /\ ("lineno" \notin DOMAIN nd \/ nd.lineno = 0)
             nd1 == IF setType THEN Put(nd, "type", kw.type) ELSE nd
             nd2 == IF setLine THEN Put(nd1, "lineno", kw.lineno) ELSE nd1
         IN  [G EXCEPT !.nodes = Put(@, node_name, nd2)]

\* A variant of lines 220-225 that appends the line without sorting.
merge_edge_unsorted(exd, t, ln) ==
    LET exd1 == IF ln = 0 THEN exd
                ELSE IF "call_sites" \notin DOMAIN exd
                THEN Put(exd, "call_sites", <<ln>>)
                ELSE IF ln \in Range(exd.call_sites) THEN exd
                ELSE Put(exd, "call_sites", Append(exd.call_sites, ln))
    IN  IF "type" \notin DOMAIN exd \/ exd.type = "unknown"
        THEN Put(exd1, "type", t) ELSE exd1

\* Lines 220-225: the attributes of an existing edge after the call.
merge_edge(exd, t, ln) ==
    LET exd1 == IF ln = 0 THEN exd
                ELSE IF "call_sites" \notin DOMAIN exd
                THEN Put(exd, "call_sites", <<ln>>)
                ELSE IF ln \in Range(exd.call_sites) THEN exd
                ELSE Put(exd, "call_sites",
                         SortSeq(Append(exd.call_sites, ln),
                                 LAMBDA a, b : a < b))
    IN  IF "type" \notin DOMAIN exd \/ exd.type = "unknown"
        THEN Put(exd1, "type", t) ELSE exd1

\* Lines 218-228: the edge, both of its nodes being in the graph G.
set_edge(G, e, t, ln) ==
    IF e \in DOMAIN G.edges
    THEN [G EXCEPT !.edges = Put(@, e, merge_edge(G.edges[e], t, ln))]
    ELSE [G EXCEPT !.edges =
             Put(@, e, IF ln # 0 THEN [type |-> t, call_sites |-> <<ln>>]
                       ELSE [type |-> t])]

\* Linter.add_edge_to_graph(caller, callee, type=t, lineno=ln)
add_edge_to_graph(G, caller, callee, t, ln) ==
    IF caller = "" \/ callee = "" THEN G
    ELSE set_edge(add_node_to_graph(
                      add_node_to_graph(G, caller, [type |-> "unknown"]),
                      callee, [type |-> "unknown"]),
                  <<caller, callee>>, t, ln)

\* json_graph.node_link_data(graph)
node_link_data(G) ==
    [directed |-> TRUE, multigraph |-> FALSE,
     nodes |-> {[id |-> n, attrs |-> G.nodes[n]] : n \in DOMAIN G.nodes},
     links |-> {[source |-> e[1], target |-> e[2], attrs |-> G.edges[e]] :
                    e \in DOMAIN G.edges}]

(***************************************************************************)
(* core.py: _load_astroid_checkers, visit_astroid_node, analyze_astroid    *)
(***************************************************************************)
RECURSIVE load_astroid_checkers(_, _, _)
load_astroid_checkers(L, I, i) ==
    IF i > Len(STATIC_CHECKERS_CLASSES) THEN L
    ELSE load_astroid_checkers(
            IF i \in I.st_init_fail
            THEN LAdd(L, "CheckerInitError", NonePos,
                      "Error initializing astroid checker")
            ELSE [L EXCEPT !.astroid_checkers = Append(@, i)],
            I, i + 1)

\* Lines 170-183: the graph step of one node, inside its try.
graph_step(G, T, node) ==
    IF T.type[node] = "FunctionDef"
    THEN add_node_to_graph(G, T.qname[node],
                           [type |-> "function", lineno |-> T.pos[node][1]])
    ELSE IF T.type[node] = "Call"
    THEN LET caller_qname == T.qname[T.scope[node]]
             called_qname == T.infer[node]
             call_type == IF T.bound[node] THEN "calls_method" ELSE "calls"
         IN  IF called_qname = "RAISE" THEN G
             ELSE IF caller_qname # "" /\ called_qname # ""
             THEN add_edge_to_graph(G, caller_qname, called_qname, call_type,
                                    T.pos[node][1])
             ELSE G
    ELSE IF T.type[node] = "ClassDef"
    THEN add_node_to_graph(G, T.qname[node],
                           [type |-> "class", lineno |-> T.pos[node][1]])
    ELSE G

\* Lines 186-188: one checker on one node, with the handler around it.  The
\* checker reports through BaseAstroidChecker.add_message.
run_astroid_checker(L, I, c, node) ==
    LET T == AstroidTrees[I.code]
        L0 == [L EXCEPT !.log = Append(@, <<"check", c, node>>)]
    IN  IF FaultKind(I, c, node) = "run"
        THEN IF T.finding[c][node] # 0
             THEN LAddAstroid(L0, STATIC_CHECKERS_CLASSES[c].msg,
                              T.pos[T.finding[c][node]],
                              STATIC_CHECKERS_CLASSES[c].NAME)
             ELSE L0
        ELSE LAddAstroid(L0, "InternalAstroidCheckerError", T.pos[node],
                         "Error in astroid checker")

\* A dispatch loop that an exception of a checker leaves.
RECURSIVE dispatch_astroid_abort(_, _, _, _)
dispatch_astroid_abort(L, I, node, k) ==
    IF k > Len(L.astroid_checkers) THEN L
    ELSE LET c == L.astroid_checkers[k]
             nt == STATIC_CHECKERS_CLASSES[c].node_types
             hit == nt = {} \/ AstroidTrees[I.code].type[node] \in nt
             L1 == IF hit THEN run_astroid_checker(L, I, c, node) ELSE L
         IN  IF hit /\ FaultKind(I, c, node) # "run" THEN L1
             ELSE dispatch_astroid_abort(L1, I, node, k + 1)

\* Lines 184-188: for checker in self.astroid_checkers, from the k-th on.
RECURSIVE dispatch_astroid(_, _, _, _)
dispatch_astroid(L, I, node, k) ==
    IF k > Len(L.astroid_checkers) THEN L
    ELSE LET c == L.astroid_checkers[k]
             nt == STATIC_CHECKERS_CLASSES[c].node_types
             L1 == IF nt = {} \/ AstroidTrees[I.code].type[node] \in nt
                   THEN run_astroid_checker(L, I, c, node)
                   ELSE L
         IN  dispatch_astroid(L1, I, node, k + 1)

RECURSIVE visit_astroid_node(_, _, _)
RECURSIVE visit_children_astroid(_, _, _, _)

\* Line 189: for child in node.get_children(), from the i-th on.
visit_children_astroid(L, I, cs, i) ==
    IF L.exc \/ i > Len(cs) THEN L
    ELSE visit_children_astroid(visit_astroid_node(L, I, cs[i]), I, cs, i + 1)

\* Line 189; I.trav_raise is the node whose get_children() raises.
descend_astroid(L, I, node) ==
    IF I.trav_raise = node THEN [L EXCEPT !.exc = TRUE]
    ELSE visit_children_astroid(L, I, AstroidTrees[I.code].children[node], 1)

\* Linter.visit_astroid_node(node)
visit_astroid_node(L, I, node) ==
    descend_astroid(
        dispatch_astroid(
            [L EXCEPT !.log = Append(@, <<"visit", node, 0>>),
                      !.call_graph = graph_step(@, AstroidTrees[I.code],
                                                node)],
            I, node, 1),
        I, node)

\* StaticRecursionChecker.check_function_recursion(func_node)
check_function_recursion(L, I, func_node) ==
    LET T == AstroidTrees[I.code]
    IN  IF T.rec_call[func_node] # 0
        THEN LAddAstroid(L, "W0801", T.pos[T.rec_call[func_node]],
                         "static-recursion")
        ELSE L

\* Lines 197-202: the function-level pass of the checkers that have a
\* check_function_recursion method, from the k-th checker on.
RECURSIVE recursion_over_functions(_, _, _)
recursion_over_functions(L, I, n) ==
    IF n > Len(AstroidTrees[I.code].type) THEN L
    ELSE recursion_over_functions(
            IF AstroidTrees[I.code].type[n] = "FunctionDef"
            THEN check_function_recursion(L, I, n) ELSE L,
            I, n + 1)

RECURSIVE recursion_pass(_, _, _)
recursion_pass(L, I, k) ==
    IF L.exc \/ k > Len(L.astroid_checkers) THEN L
    ELSE recursion_pass(
            IF STATIC_CHECKERS_CLASSES[L.astroid_checkers[k]].recursion
            THEN recursion_over_functions(L, I, 1) ELSE L,
            I, k + 1)

\* Linter.analyze_astroid(tree); the module node is node 1.
analyze_astroid(L, I) ==
    except_Exception(
        recursion_pass(
            visit_astroid_node(
                [(IF L.astroid_checkers = <<>>
                  THEN load_astroid_checkers(L, I, 1) ELSE L)
                 EXCEPT !.call_graph = EmptyGraph],
                I, 1),
            I, 1),
        "AstroidTraversalError")

(***************************************************************************)
(* core.py: analyze_code(code, mode), in the steps of its body             *)
(***************************************************************************)
\* call_graph_data = None
NoGraph == [directed |-> FALSE, multigraph |-> FALSE, nodes |-> {},
            links |-> {}]

NoResult == [errors |-> <<>>, call_graph |-> NoGraph, returned |-> FALSE]

NoMemory == [input |-> <<>>, result |-> NoResult, between |-> FALSE]

\* The checker invocations that can be made to raise on tree t.
RTPairs(t) ==
    {pr \in (1..Len(RT_CHECKERS_CLASSES)) \X (1..Len(ParsoTrees[t].type)) :
        ParsoTrees[t].type[pr[2]] \in RT_CHECKERS_CLASSES[pr[1]].node_types}

STPairs(t) ==
    {pr \in (1..Len(STATIC_CHECKERS_CLASSES))
            \X (1..Len(AstroidTrees[t].type)) :
        AstroidTrees[t].type[pr[2]]
            \in STATIC_CHECKERS_CLASSES[pr[1]].node_types}

\* The subsets of Pr with at most k elements.
RECURSIVE FaultSets(_, _)
FaultSets(Pr, k) ==
    IF k = 0 THEN {{}}
    ELSE LET P == FaultSets(Pr, k - 1)
         IN  P \cup {F \cup {t} : F \in P, t \in Pr}

FaultKinds(F) == IF F = {} THEN {"raise"} ELSE {"raise", "typeerr", "arity"}

ScopeNodes(t) ==
    {n \in 1..Len(ParsoTrees[t].type) :
        ParsoTrees[t].type[n] \in {"file_input", "funcdef", "classdef",
                                   "lambdef"}}

\* Syntax errors of source t: between 1 and MaxSynErrs for tree 2, none for
\* the others.
SynCounts(t) == IF t = 2 THEN 1..MaxSynErrs ELSE {0}

Inp(mode, code, nsyn, parse, grammar_ok, rt_init_fail, st_init_fail, faults, fault_kind, pop_raise, ser_raise, trav_raise, lineno, offset) ==
    [mode |-> mode, code |-> code, nsyn |-> nsyn, parse |-> parse,
     grammar_ok |-> grammar_ok, rt_init_fail |-> rt_init_fail,
     st_init_fail |-> st_init_fail, faults |-> faults,
     fault_kind |-> fault_kind,
     pop_raise |-> pop_raise, ser_raise |-> ser_raise,
     trav_raise |-> trav_raise, lineno |-> lineno, offset |-> offset]

RealtimeInputs ==
    {Inp("realtime", t, 0, "ok", FALSE, {}, {}, {}, "raise", 0, FALSE, 0,
         0, 0) : t \in 1..Len(ParsoTrees)}
    \cup
    {Inp("realtime", t, 0, "raises", TRUE, f, {}, {}, "raise", 0, FALSE, 0,
         0, 0) : t \in 1..Len(ParsoTrees), f \in SUBSET {1, 2}}
    \cup
    UNION {
      UNION {
        {Inp("realtime", t, n, p, TRUE, f, {}, F, k, pr, FALSE, 0, 0, 0) :
          n \in SynCounts(t), p \in {"ok", "iter_raises"},
          f \in SUBSET {1, 2}, k \in FaultKinds(F),
          pr \in {0} \cup ScopeNodes(t)} :
        F \in FaultSets(RTPairs(t), MaxFaults)} : t \in 1..Len(ParsoTrees)}

\* What astroid.parse raises for a source that is not valid Python: the
\* builtin SyntaxError that line 269 names, or astroid's own
\* AstroidSyntaxError (the one scripts/analyze.py catches), which is an
\* Exception but no SyntaxError.
SyntaxRejections == {"SyntaxError", "AstroidSyntaxError"}

StaticInputs ==
    UNION {
      {Inp("static", t, 0, "ok", TRUE, f, g, F, "raise", 0, sr, tr, 0, 0) :
        f \in {{}, {1}}, g \in SUBSET {2, 8},
        F \in FaultSets(STPairs(t), MaxFaults),
        sr \in BOOLEAN, tr \in {0, 2}} : t \in 1..Len(AstroidTrees)}
    \cup
    {Inp("static", 1, 0, p, TRUE, f, {}, {}, "raise", 0, FALSE, 0, l, o) :
        p \in SyntaxRejections, f \in {{}, {1}}, l \in {0, 2}, o \in {0, 5}}
    \cup
    {Inp("static", 1, 0, "raises", TRUE, f, {}, {}, "raise", 0, FALSE, 0,
         0, 0) : f \in {{}, {1}}}

OtherInputs ==
    {Inp("bogus", 1, 0, "ok", TRUE, f, {}, {}, "raise", 0, FALSE, 0, 0, 0) :
        f \in {{}, {1}}}

Inputs == RealtimeInputs \cup StaticInputs \cup OtherInputs

\* The calls of a host that repeats calls and compares their results.
IdemInputs ==
    {I \in Inputs :
        /\ I.rt_init_fail \in {{}, {1}} /\ I.st_init_fail \in {{}, {8}}
        /\ I.fault_kind = "raise"
        /\ Cardinality(I.faults) <= 1
        /\ (I.faults # {} => I.rt_init_fail = {} /\ I.st_init_fail = {})
        /\ I.grammar_ok /\ I.parse \in {"ok", "SyntaxError"}
        /\ I.nsyn \in {0, 1}
        /\ I.pop_raise = 0 /\ I.trav_raise = 0 /\ ~I.ser_raise
        /\ I.lineno = 0 /\ I.offset = 0}

\* Lines 250-251: the record built for one error of grammar.iter_errors
syntax_error_entry(error) ==
    LET line == error.start_pos[1]
        col == error.start_pos[2]
        to_line == error.end_pos[1]
        end_col == error.end_pos[2]
    IN  [message |-> "SyntaxError: " \o error.message,
         line |-> line, column |-> col, to_line |-> to_line,
         end_column |-> Maxi(col + 1, end_col),
         errorType |-> "SyntaxError"]

\* Lines 249-251: the records built from the errors the parser reports.
RECURSIVE collect_syntax_errors(_)
collect_syntax_errors(n) ==
    IF n = 0 THEN <<>>
    ELSE Append(collect_syntax_errors(n - 1), syntax_error_entry(SynErr(n)))

\* Line 289: every record without its _key entry
cleaned(errors) ==
    [i \in 1..Len(errors) |->
        [k \in (DOMAIN errors[i]) \ {"_key"} |-> errors[i][k]]]

\* A merge that drops the checker diagnostics of a source with syntax errors.
merge_errors_syntax_only(syn, errors) ==
    IF syn # <<>> THEN syn ELSE errors

\* Line 259: final_errors = syntax_errors + linter.errors
merge_errors(syn, errors) == syn \o errors

\* Lines 269-272: except SyntaxError as e, on the list final_errors; errors is
\* linter.errors, which the handler leaves out of the result.
except_SyntaxError(final, errors, e) ==
    Append(final,
           [message |-> "SyntaxError: invalid syntax",
            line |-> Or(e.lineno, 1), column |-> Or(e.offset, 1) - 1,
            to_line |-> Or(e.lineno, 1), end_column |-> Or(e.offset, 1),
            errorType |-> "SyntaxError"])

\* No call of analyze_code has been made; one root scope exists.
Init ==
    /\ scopes = (1 :> Scope(1, NoScope))
    /\ ret = None
    /\ op = <<"init">>
    /\ defLog = (1 :> <<>>)
    /\ pc = "idle"
    /\ input = Inp("bogus", 1, 0, "ok", TRUE, {}, {}, {}, "raise", 0, FALSE, 0,
                   0, 0)
    /\ linter = [parso_checkers |-> <<>>, astroid_checkers |-> <<>>,
                 errors |-> <<>>, call_graph |-> EmptyGraph,
                 grammar |-> FALSE, root_scope |-> NoScope,
                 scope_map |-> <<>>, attempts |-> 0, log |-> <<>>,
                 exc |-> FALSE]
    /\ syntax_errors = <<>>
    /\ tree = FALSE
    /\ final_errors = <<>>
    /\ call_graph_data = NoGraph
    /\ result = NoResult
    /\ remembered = NoMemory
    /\ call = <<"none">>
    /\ out = <<>>
    /\ suspended =
          [pc |-> "idle",
           input |-> Inp("bogus", 1, 0, "ok", TRUE, {}, {}, {}, "raise", 0,
                         FALSE, 0, 0, 0),
           linter |-> [parso_checkers |-> <<>>, astroid_checkers |-> <<>>,
                       errors |-> <<>>, call_graph |-> EmptyGraph,
                       grammar |-> FALSE, root_scope |-> NoScope,
                       scope_map |-> <<>>, attempts |-> 0, log |-> <<>>,
                       exc |-> FALSE],
           syntax_errors |-> <<>>, tree |-> FALSE, final_errors |-> <<>>,
           call_graph_data |-> NoGraph, result |-> NoResult]

\* Lines 231-235: the call is entered and its Linter constructed; the caller
\* has no result of this call yet.
Begin(I) ==
    /\ pc \in {"idle", "raised"}
    /\ pc' = "init"
    /\ input' = I
    /\ linter' = Linter__init__(linter, I)
    /\ syntax_errors' = <<>>
    /\ tree' = FALSE
    /\ final_errors' = <<>>
    /\ call_graph_data' = NoGraph
    /\ result' = NoResult
    /\ UNCHANGED <<remembered, scopeVars, unitVars, suspended>>

\* Lines 240-254: realtime mode, the tolerant parse.
RealtimeParse ==
    /\ pc = "init" /\ input.mode = "realtime"
    /\ pc' = "parsed"
    /\ IF ~linter.grammar
       THEN /\ linter' = LAdd(linter, "ParsoSetupError", NonePos,
                              "Parso grammar not loaded.")
            /\ UNCHANGED <<syntax_errors, tree>>
       ELSE IF input.parse = "raises"
       THEN /\ linter' = LAdd(linter, "ParsoCrashError", NonePos,
                              "Critical Parso parsing error")
            /\ UNCHANGED <<syntax_errors, tree>>
       ELSE IF input.parse = "iter_raises"
       THEN /\ tree' = TRUE
            /\ linter' = LAdd(linter, "ParsoCrashError", NonePos,
                              "Critical Parso parsing error")
            /\ UNCHANGED syntax_errors
       ELSE /\ tree' = TRUE
            /\ syntax_errors' = collect_syntax_errors(input.nsyn)
            /\ UNCHANGED linter
    /\ UNCHANGED <<input, final_errors, call_graph_data, result, remembered,
                   scopeVars, unitVars, suspended>>

\* Lines 256-259: realtime mode, the checker pass and the merge.
RealtimeAnalyze ==
    /\ pc = "parsed" /\ input.mode = "realtime"
    /\ linter' = IF tree THEN analyze_parso(linter, input) ELSE linter
    /\ IF linter'.exc
       THEN pc' = "raised" /\ UNCHANGED final_errors
       ELSE /\ pc' = "analyzed"
            /\ final_errors' = merge_errors(syntax_errors, linter'.errors)
    /\ UNCHANGED <<input, syntax_errors, tree, call_graph_data, result,
                   remembered, scopeVars, unitVars, suspended>>

\* Lines 264-276: static mode, the inferring parse.
StaticParse ==
    /\ pc = "init" /\ input.mode = "static"
    /\ pc' = "parsed"
    /\ IF input.parse = "SyntaxError"
       THEN /\ final_errors' = except_SyntaxError(final_errors, linter.errors,
                                                   input)
            /\ UNCHANGED <<linter, tree>>
       ELSE IF input.parse \in {"raises", "AstroidSyntaxError"}
       THEN /\ linter' = LAdd(linter, "AstroidParsingError", NonePos,
                              "Error parsing with Astroid")
            /\ final_errors' = linter'.errors
            /\ UNCHANGED tree
       ELSE /\ tree' = TRUE
            /\ UNCHANGED <<linter, final_errors>>
    /\ UNCHANGED <<input, syntax_errors, call_graph_data, result, remembered,
                   scopeVars, unitVars, suspended>>

\* Lines 281-283: the handler of the graph export; I.ser_raise: node_link_data
\* raises.
except_GraphError(L, I) ==
    IF L.call_graph.nodes # <<>> /\ I.ser_raise
    THEN LAdd(L, "GraphError", NonePos, "Failed to convert call graph")
    ELSE L

\* Lines 278-284: static mode, the checker pass and the graph export.
StaticAnalyze ==
    /\ pc = "parsed" /\ input.mode = "static"
    /\ IF tree
       THEN /\ linter' = except_GraphError(analyze_astroid(linter, input),
                                           input)
            /\ IF linter'.exc
               THEN pc' = "raised"
                    /\ UNCHANGED <<final_errors, call_graph_data>>
               ELSE /\ pc' = "analyzed"
                    /\ call_graph_data' =
                          IF linter'.call_graph.nodes # <<>>
                             /\ ~input.ser_raise
                          THEN node_link_data(linter'.call_graph)
                          ELSE call_graph_data
                    /\ final_errors' = linter'.errors
       ELSE /\ pc' = "analyzed"
            /\ UNCHANGED <<linter, final_errors, call_graph_data>>
    /\ UNCHANGED <<input, syntax_errors, tree, result, remembered, scopeVars, unitVars, suspended>>

\* Lines 285-286: any other mode.
UnknownMode ==
    /\ pc = "init" /\ input.mode \notin {"realtime", "static"}
    /\ pc' = "analyzed"
    /\ final_errors' = << [message |-> "Unknown analysis mode",
                           line |-> 1, column |-> 0, to_line |-> 1,
                           end_column |-> 1, errorType |-> "ModeError"] >>
    /\ UNCHANGED <<input, linter, syntax_errors, tree, call_graph_data,
                   result, remembered, scopeVars, unitVars, suspended>>

\* Lines 289-292: the result is built and returned.
analyze_code_return ==
    /\ pc = "analyzed"
    /\ pc' = "idle"
    /\ result' = [errors |-> cleaned(final_errors),
                  call_graph |-> call_graph_data, returned |-> TRUE]
    /\ UNCHANGED <<input, linter, syntax_errors, tree, final_errors,
                   call_graph_data, scopeVars, unitVars, suspended>>

Return ==
    /\ analyze_code_return
    /\ UNCHANGED remembered

\* The return to a host that keeps (remember) the input and result of one
\* call, and notes whether a call with another input has returned since.
ReturnToComparingHost(remember) ==
    /\ analyze_code_return
    /\ IF remember
       THEN /\ remembered = NoMemory
            /\ remembered' = [input |-> input, result |-> result',
                              between |-> FALSE]
       ELSE remembered' =
               IF remembered # NoMemory /\ remembered.input # input
               THEN [remembered EXCEPT !.between = TRUE]
               ELSE remembered

Step ==
    \/ RealtimeParse
    \/ RealtimeAnalyze
    \/ StaticParse
    \/ StaticAnalyze
    \/ UnknownMode

Next ==
    \/ \E I \in Inputs : Begin(I)
    \/ Step
    \/ Return

NextIdem ==
    \/ \E I \in IdemInputs : Begin(I)
    \/ Step
    \/ \E remember \in BOOLEAN : ReturnToComparingHost(remember)

\* The calls of a host that issues overlapping requests.
ConcurrentInputs ==
    {I \in IdemInputs :
        /\ I.rt_init_fail = {} /\ I.st_init_fail = {} /\ I.faults = {}
        /\ I.grammar_ok /\ I.parse = "ok" /\ I.nsyn \in {0, 1}}

\* A variant in which the Linter is a module-level object: the resumed call
\* works on whatever the other call left in it.
module_level_linter(own, current) == current

\* Line 233: linter is a local variable of the call, so the resumed call
\* works on the Linter it constructed itself.
local_linter(own, current) == own

\* The running call is suspended between two of its steps and the other call
\* is resumed (or, being idle, is ready to be entered): the local variables
\* of lines 233-290 belong to each call.
ContextSwitch ==
    /\ suspended' = [pc |-> pc, input |-> input, linter |-> linter,
                     syntax_errors |-> syntax_errors, tree |-> tree,
                     final_errors |-> final_errors,
                     call_graph_data |-> call_graph_data, result |-> result]
    /\ pc' = suspended.pc
    /\ input' = suspended.input
    /\ linter' = local_linter(suspended.linter, linter)
    /\ syntax_errors' = suspended.syntax_errors
    /\ tree' = suspended.tree
    /\ final_errors' = suspended.final_errors
    /\ call_graph_data' = suspended.call_graph_data
    /\ result' = suspended.result
    /\ UNCHANGED <<remembered, scopeVars, unitVars>>

NextConcurrent ==
    \/ \E I \in ConcurrentInputs : Begin(I)
    \/ Step
    \/ \E remember \in BOOLEAN : ReturnToComparingHost(remember)
    \/ ContextSwitch

(***************************************************************************)
(* Symbol-table operations as actions                                      *)
(***************************************************************************)
\* The kind a scope builder records for a name (never BUILTIN).
TypeOf(name) == IF name = "len" THEN "FUNCTION" ELSE "VARIABLE"

TotalDefines == LET RECURSIVE Sum(_)
                    Sum(S) == IF S = {} THEN 0
                              ELSE LET s == CHOOSE e \in S : TRUE
                                   IN  Len(defLog[s]) + Sum(S \ {s})
                IN  Sum(DOMAIN defLog)

\* Scope(node, parent_scope=p) for an existing scope p, or a new root.
NewScope(p) ==
    /\ Cardinality(DOMAIN scopes) < MaxScopes
    /\ LET s == Cardinality(DOMAIN scopes) + 1
       IN  /\ scopes' = [i \in (DOMAIN scopes) \cup {s} |->
                            IF i = s THEN Scope(s, p) ELSE scopes[i]]
           /\ defLog' = [i \in (DOMAIN defLog) \cup {s} |->
                            IF i = s THEN <<>> ELSE defLog[i]]
           /\ op' = <<"new", s>>
    /\ UNCHANGED <<ret, facadeVars, unitVars, suspended>>

\* scope.define(symbol)
Define(s, symbol) ==
    /\ TotalDefines < MaxDefines
    /\ scopes' = heap_define(scopes, s, symbol)
    /\ defLog' = [defLog EXCEPT ![s] = Append(@, symbol)]
    /\ op' = <<"define", s, symbol.name>>
    /\ UNCHANGED <<ret, facadeVars, unitVars, suspended>>

\* scope.lookup(name, search_parents)
Lookup(s, name, search_parents) ==
    /\ LET r == lookup(scopes, s, name, search_parents)
       IN  /\ ret' = r.ret
           /\ scopes' = r.heap
    /\ op' = <<"lookup", s, name, search_parents>>
    /\ UNCHANGED <<defLog, facadeVars, unitVars, suspended>>

ScopeNext ==
    \/ \E p \in (DOMAIN scopes) \cup {NoScope} : NewScope(p)
    \/ \E s \in DOMAIN scopes, n \in Names :
          Define(s, Symbol(n, TypeOf(n), TotalDefines + 1))
    \/ \E s \in DOMAIN scopes, n \in Names, sp \in BOOLEAN : Lookup(s, n, sp)

\* Operations on the symbol table alone.
SpecScope == Init /\ [][ScopeNext]_vars

(***************************************************************************)
(* The facade: calls of analyze_code, one after the other                  *)
(***************************************************************************)
Spec == Init /\ [][Next]_vars

\* Calls of a host that repeats calls and compares the results.
SpecIdem == Init /\ [][NextIdem]_vars

\* Two calls of analyze_code whose steps interleave.
SpecConcurrent == Init /\ [][NextConcurrent]_vars

(***************************************************************************)
(* Properties of the symbol table                                          *)
(***************************************************************************)
\* The scopes on the path from s to the root, nearest first.
RECURSIVE chain(_, _)
chain(h, s) ==
    IF h[s].parent = NoScope THEN <<s>> ELSE <<s>> \o chain(h, h[s].parent)

Min(S) == CHOOSE m \in S : \A e \in S : m <= e
Max(S) == CHOOSE m \in S : \A e \in S : m >= e

NearestDefinition(h, s, name) ==
    LET c == chain(h, s)
        D == {i \in 1..Len(c) : name \in DOMAIN h[c[i]].symbols}
    IN  IF D # {} THEN h[c[Min(D)]].symbols[name]
        ELSE IF name \in Builtins THEN Symbol(name, "BUILTIN", 0)
        ELSE None

\* C6: lookup(name) with search_parents=True returns the symbol of the
\* nearest scope on the path to the root that defines the name; when no scope
\* on the path defines it, a Builtin symbol if the name is a host built-in,
\* and None otherwise.
C6_LookupNearest ==
    (op[1] = "lookup" /\ op[4] = TRUE)
        => ret = NearestDefinition(scopes, op[2], op[3])

\* A lookup of a built-in name that is resolved by an ancestor's definition.
C6_Witness ==
    /\ op[1] = "lookup" /\ op[4] = TRUE
    /\ op[3] \in Builtins
    /\ op[3] \notin DOMAIN scopes[op[2]].symbols
    /\ scopes[op[2]].parent # NoScope
    /\ op[3] \in DOMAIN scopes[scopes[op[2]].parent].symbols
    /\ ret = scopes[scopes[op[2]].parent].symbols[op[3]]

\* C7: after any sequence of define calls on a scope, its mapping holds for
\* each defined name exactly the symbol of the most recent define of that
\* name, and holds no other name.
C7_LastWriterWins ==
    \A s \in DOMAIN scopes :
        LET log == defLog[s]
        IN  /\ DOMAIN scopes[s].symbols = {log[i].name : i \in 1..Len(log)}
            /\ \A n \in DOMAIN scopes[s].symbols :
                 scopes[s].symbols[n] =
                    log[Max({i \in 1..Len(log) : log[i].name = n})]

\* A scope in which one name was defined twice and another name once.
C7_Witness ==
    \E s \in DOMAIN scopes :
        \E i, j, k \in 1..Len(defLog[s]) :
            /\ i < j
            /\ defLog[s][i].name = defLog[s][j].name
            /\ defLog[s][k].name # defLog[s][i].name

\* C8: a lookup changes the symbols of no scope, and no scope ever stores a
\* Builtin symbol.
C8_LookupReadOnly ==
    /\ [][op'[1] = "lookup" => scopes' = scopes]_vars
    /\ [](\A s \in DOMAIN scopes : \A n \in DOMAIN scopes[s].symbols :
             scopes[s].symbols[n].type # "BUILTIN")

\* A lookup resolved through the parent scope, the child still not holding
\* the name.
C8_Witness ==
    /\ op[1] = "lookup" /\ op[4] = TRUE
    /\ op[3] \notin DOMAIN scopes[op[2]].symbols
    /\ scopes[op[2]].parent # NoScope
    /\ ret # None /\ ret.type # "BUILTIN"

(***************************************************************************)
(* Properties of the facade                                                *)
(***************************************************************************)
DiagFields == {"message", "line", "column", "to_line", "end_column",
               "errorType"}

KeyOf(d) == <<d.errorType, d.line, d.column, d.to_line, d.end_column>>

HasType(errors, t) == \E i \in 1..Len(errors) : errors[i].errorType = t

Logged(L, e) == \E i \in 1..Len(L.log) : L.log[i] = e

\* C1: no exception leaves analyze_code, whatever the mode and whatever
\* raises during parsing, scope building, a checker or the graph export: the
\* call is never left by an exception, and the result it returns has a list
\* of diagnostic records under errors and a call_graph entry.
C1_ReturnsWellFormed ==
    /\ pc \in {"idle", "init", "parsed", "analyzed"}
    /\ result.returned =>
         /\ {"errors", "call_graph"} \subseteq DOMAIN result
         /\ DOMAIN result.errors = 1..Len(result.errors)
         /\ \A i \in 1..Len(result.errors) :
               DOMAIN result.errors[i] = DiagFields

\* A call returned although scope building raised during the realtime
\* traversal.
C1_Witness ==
    /\ result.returned /\ input.mode = "realtime" /\ input.pop_raise # 0
    /\ HasType(result.errors, "ParsoTraversalError")

C3_Idempotent ==
    (/\ pc = "idle" /\ result.returned
     /\ remembered # NoMemory /\ remembered.input = input)
        => /\ result.errors = remembered.result.errors
           /\ result.call_graph = remembered.result.call_graph

\* The remembered call repeated after a call with another input, with
\* diagnostics and a call graph in its result.
C3_Witness ==
    /\ pc = "idle" /\ result.returned
    /\ remembered # NoMemory /\ remembered.input = input
    /\ remembered.between
    /\ result.errors # <<>> /\ result.call_graph # NoGraph

\* C4: a call with an unrecognized mode returns exactly one diagnostic, of
\* errorType InvalidModeError, with call_graph null, and neither parses nor
\* runs a checker.
C4_InvalidModeError ==
    (result.returned /\ input.mode \notin {"realtime", "static"})
        => /\ Len(result.errors) = 1
           /\ result.errors[1].errorType = "InvalidModeError"
           /\ result.call_graph = NoGraph
           /\ ~tree /\ linter.log = <<>>

\* The tree the traversal of call I walks, and the checkers it dispatches to.
TreeOf(I) ==
    IF I.mode = "realtime" THEN ParsoTrees[I.code] ELSE AstroidTrees[I.code]

LoadedCheckers(L, I) ==
    IF I.mode = "realtime" THEN L.parso_checkers ELSE L.astroid_checkers

NodeTypes(I, c) ==
    IF I.mode = "realtime" THEN RT_CHECKERS_CLASSES[c].node_types
    ELSE STATIC_CHECKERS_CLASSES[c].node_types

Matches(I, c, n) == NodeTypes(I, c) = {} \/ TreeOf(I).type[n] \in NodeTypes(I, c)

\* The key of the internal-checker-error diagnostic of node n.
InternalErrorKey(I, n) ==
    IF I.mode = "realtime"
    THEN add_message(<<>>, "InternalParsoCheckerError",
                     ParsoTrees[I.code].pos[n], "")[1]._key
    ELSE add_astroid_message(<<>>, "InternalAstroidCheckerError",
                             AstroidTrees[I.code].pos[n], "")[1]._key

VisitedAll(L, I) ==
    \A n \in 1..Len(TreeOf(I).type) : Logged(L, <<"visit", n, 0>>)

\* C5: when check of checker c raises on node n, in either traversal, (a) an
\* internal-checker-error diagnostic is recorded at n, (b) every checker
\* registered after c that applies to n is invoked on n afterwards, and (c)
\* the traversal visits every node of the tree (unless scope building or the
\* walk itself raises).
C5_CheckerFailureContained ==
    (pc = "analyzed" /\ tree) =>
        \A f \in input.faults :
            \A i \in 1..Len(linter.log) :
                linter.log[i] = <<"check", f[1], f[2]>> =>
                    /\ HasKey(linter.errors, InternalErrorKey(input, f[2]))
                    /\ \A k, k2 \in 1..Len(LoadedCheckers(linter, input)) :
                          (/\ LoadedCheckers(linter, input)[k] = f[1]
                           /\ k2 > k
                           /\ Matches(input,
                                      LoadedCheckers(linter, input)[k2],
                                      f[2]))
                          => \E j \in (i + 1)..Len(linter.log) :
                                linter.log[j] =
                                   <<"check",
                                     LoadedCheckers(linter, input)[k2], f[2]>>
                    /\ (input.pop_raise = 0 /\ input.trav_raise = 0)
                          => VisitedAll(linter, input)

\* The static traversal after a checker raised on a node to which a later
\* checker applies too, a node that has nodes after it in the walk.
C5_Witness ==
    /\ pc = "analyzed" /\ tree /\ input.mode = "static"
    /\ input.trav_raise = 0
    /\ \E f \in input.faults :
          \E i, j, v \in 1..Len(linter.log) :
              /\ i < j /\ j < v
              /\ linter.log[i] = <<"check", f[1], f[2]>>
              /\ linter.log[j][1] = "check" /\ linter.log[j][3] = f[2]
              /\ linter.log[v][1] = "visit"
    /\ HasType(linter.errors, "InternalAstroidCheckerError")

\* C9: in static mode, when the inferring parser rejects the source as
\* syntactically invalid, the result holds exactly one diagnostic, of
\* errorType SyntaxError; no checker is loaded or run, no node visited, no
\* graph built, and call_graph is null.
C9_StaticSyntaxError ==
    (result.returned /\ input.mode = "static"
                     /\ input.parse \in SyntaxRejections)
        => /\ Len(result.errors) = 1
           /\ result.errors[1].errorType = "SyntaxError"
           /\ linter.astroid_checkers = <<>> /\ linter.log = <<>>
           /\ linter.call_graph = EmptyGraph
           /\ result.call_graph = NoGraph

\* C10: a realtime result lists the syntax errors of the tolerant parser, then
\* the diagnostics of the Linter, none lost; whenever the parser returned a
\* tree analyze_parso is entered, and (unless scope building raises) walks
\* all of it with every loaded checker, syntax errors or not.
C10_RealtimeMerge ==
    (result.returned /\ input.mode = "realtime") =>
        /\ result.errors = cleaned(syntax_errors) \o cleaned(linter.errors)
        /\ (input.grammar_ok /\ input.parse = "ok")
              => syntax_errors = collect_syntax_errors(input.nsyn)
        /\ tree => linter.root_scope # NoScope
        /\ (tree /\ input.pop_raise = 0)
              => /\ VisitedAll(linter, input)
                 /\ \A k \in 1..Len(linter.parso_checkers) :
                       \A n \in 1..Len(TreeOf(input).type) :
                           Matches(input, linter.parso_checkers[k], n)
                              => Logged(linter, <<"check",
                                          linter.parso_checkers[k], n>>)

\* A realtime result with syntax errors in front of a checker's finding.
C10_Witness ==
    /\ result.returned /\ input.mode = "realtime"
    /\ syntax_errors # <<>>
    /\ HasType(result.errors, "SyntaxError")
    /\ HasType(result.errors, "E0101")
    /\ result.errors[1].errorType = "SyntaxError"
    /\ result.errors[Len(result.errors)].errorType # "SyntaxError"

\* The diagnostics of type t whose key is k.
CountAt(errors, t, k) ==
    Cardinality({i \in 1..Len(errors) :
                    errors[i].errorType = t /\ KeyOf(errors[i]) = k})

\* C11: in static mode the result holds exactly one recursion diagnostic
\* (W0801) for every function that calls its own bare name in its own scope,
\* and none for a function that does not.
C11_OneRecursionDiagnostic ==
    (/\ result.returned /\ input.mode = "static" /\ tree
     /\ input.trav_raise = 0)
        => \A n \in 1..Len(AstroidTrees[input.code].type) :
              AstroidTrees[input.code].type[n] = "FunctionDef"
                 => IF AstroidTrees[input.code].rec_call[n] # 0
                    THEN CountAt(result.errors, "W0801",
                            <<"W0801">> \o astroid_position(
                               AstroidTrees[input.code].pos[
                                  AstroidTrees[input.code].rec_call[n]]))
                         = 1
                    ELSE ~HasType(result.errors, "W0801")

(***************************************************************************)
(* The checkers, each called directly on one node                          *)
(***************************************************************************)
MaxOperators == 2    \* operators of one parso term / arith_expr node

\* BaseParsoChecker.add_message / BaseAstroidChecker.add_message: a key of
\* MSGS is reported under MSG_ID_PREFIX + key at the node; another key is not.
checker_add_message(reported, prefix, MSGS, msg_key, node) ==
    IF msg_key \in MSGS THEN Append(reported, <<prefix \o msg_key, node>>)
    ELSE reported

\* parso leaves: a name, number literals, operators.
Leaf(type, value) == [type |-> type, value |-> value, children |-> <<>>]

NumberLiterals == {"0", "0.0", "0x0", "1"}

ParsoOperands ==
    {Leaf("name", "a")} \cup {Leaf("number", v) : v \in NumberLiterals}

ParsoOperators == {Leaf("operator", v) : v \in {"/", "//", "*"}}

\* The children of a term: operand (operator operand)+.
RECURSIVE TermsOf(_)
TermsOf(k) ==
    IF k = 0 THEN {<<x>> : x \in ParsoOperands}
    ELSE {t \o <<o, x>> : t \in TermsOf(k - 1), o \in ParsoOperators,
                          x \in ParsoOperands}

ParsoTerms == UNION {TermsOf(k) : k \in 1..MaxOperators}

\* float(val_str) of line 33, for the literals above: the value, or ValueError.
float(val_str) ==
    CASE val_str \in {"0", "0.0"} -> [ValueError |-> FALSE, value |-> 0]
      [] val_str = "1" -> [ValueError |-> FALSE, value |-> 1]
      [] OTHER -> [ValueError |-> TRUE, value |-> 0]

\* Lines 27-34: is_zero of a number leaf's text (none of the literals
\* above starts with 0e or has an upper-case letter).
is_zero(val_str) ==
    \/ val_str = "0"
    \/ val_str = "0.0"
    \/ ~float(val_str).ValueError /\ float(val_str).value = 0

\* RTZeroDivisionParsoChecker._get_actual_value_node
RECURSIVE get_actual_value_node(_)
get_actual_value_node(node) ==
    IF Len(node.children) = 1 /\ node.type # "number"
    THEN get_actual_value_node(node.children[1])
    ELSE node

\* Lines 19-22: the index of the first `/` or `//` operator child, 0 if none
\* (indices count from 1 here, from 0 in the code).
first_division(children) ==
    LET S == {i \in 1..Len(children) :
                 children[i].type = "operator"
                    /\ children[i].value \in {"/", "//"}}
    IN  IF S = {} THEN 0 ELSE CHOOSE i \in S : \A j \in S : i <= j

\* RTZeroDivisionParsoChecker.check on a node with these children: the
\* messages it adds, each with the index of the child it is anchored at.
rt_zero_division(children) ==
    LET op_idx == first_division(children)
    IN  IF Len(children) >= 3 /\ op_idx > 1 /\ op_idx + 1 <= Len(children)
        THEN IF /\ get_actual_value_node(children[op_idx + 1]).type = "number"
                /\ is_zero(get_actual_value_node(children[op_idx + 1]).value)
             THEN checker_add_message(<<>>, "E", {"0201"}, "0201", op_idx + 1)
             ELSE <<>>
        ELSE <<>>

\* astroid constants by Python type and value (for a str or bytes constant
\* the value is kept as its number of characters); Uninferable.
Const(pytype, value) == [kind |-> "Const", pytype |-> pytype, value |-> value]

Uninferable == [kind |-> "Uninferable"]

\* What node.infer() gives: InferenceError, or the list of inferred values.
Inferred(values) == [InferenceError |-> FALSE, values |-> values]

InferenceError == [InferenceError |-> TRUE, values |-> <<>>]

ZeroDivInferences ==
    {InferenceError, Inferred(<<>>), Inferred(<<Uninferable>>)}
        \cup {Inferred(<<Const(c[1], c[2])>>) :
                c \in {<<"int", 0>>, <<"int", 1>>, <<"float", 0>>,
                       <<"bool", 0>>, <<"str", 0>>}}

\* A BinOp: its operator, whether the right operand is a literal, and what
\* the right operand infers to (a literal infers to itself).
BinOps ==
    {[op |-> o, literal |-> l, right |-> r] :
        o \in {"/", "//", "*", "%"}, l \in BOOLEAN, r \in ZeroDivInferences}
      \ {b \in [op : {"/", "//", "*", "%"}, literal : {TRUE},
                right : ZeroDivInferences] :
            b.right \in {InferenceError, Inferred(<<>>),
                         Inferred(<<Uninferable>>)}}

\* Python's value == 0 for a constant's value (0, 0.0 and False equal 0).
py_eq_zero(c) == c.pytype \in {"int", "float", "bool", "complex"} /\ c.value = 0

\* StaticZeroDivisionChecker.check
static_zero_division(node) ==
    IF node.op \in {"/", "//"}
    THEN IF node.right.InferenceError THEN <<>>
         ELSE IF /\ node.right.values # <<>>
                 /\ node.right.values[1].kind = "Const"
                 /\ py_eq_zero(node.right.values[1])
              THEN checker_add_message(<<>>, "E", {"0201"}, "0201", "right")
              ELSE <<>>
    ELSE <<>>

MaxSeqLen == 2       \* elements of a literal list, tuple, string or bytes
MaxInferred == 2     \* values one inference of an indexed expression yields

\* A literal list or tuple as astroid infers it, and a dict.
Container(kind, n) == [kind |-> kind, elts |-> [i \in 1..n |-> Const("int", i)]]

\* A str or bytes constant of n characters.
Text(pytype, n) == Const(pytype, n)

\* What node.slice.infer() can give for a subscript.
SliceInferences ==
    {InferenceError, Inferred(<<>>), Inferred(<<Uninferable>>),
     Inferred(<<Const("bool", 1)>>), Inferred(<<Text("str", 1)>>)}
        \cup {Inferred(<<Const("int", i)>>) :
                i \in (0 - MaxSeqLen - 1)..(MaxSeqLen + 1)}

InferredValues ==
    {Uninferable, Const("int", 1), Container("Dict", 0)}
        \cup {Container(k, n) : k \in {"List", "Tuple"}, n \in 0..MaxSeqLen}
        \cup {Text(t, n) : t \in {"str", "bytes"}, n \in 0..MaxSeqLen}

\* What iterating node.value.infer() can give: the values it yields, and
\* whether it raises InferenceError after them.
ValueInferences ==
    {[InferenceError |-> e, values |-> v] :
        e \in BOOLEAN,
        v \in UNION {[1..k -> InferredValues] : k \in 0..MaxInferred}}

Subscripts == [slice : SliceInferences, value : ValueInferences]

\* Line 26: length = None.
NoLength == 0 - 1

\* Lines 26-28: the length of an inferred literal, None for another value.
length_of(value_inferred) ==
    IF value_inferred.kind \in {"List", "Tuple"}
    THEN Len(value_inferred.elts)
    ELSE IF /\ value_inferred.kind = "Const"
            /\ value_inferred.pytype \in {"str", "bytes"}
         THEN value_inferred.value
         ELSE NoLength

\* A variant of out_of_range that forgets negative indices.
out_of_range_upper_only(index_value, length) == ~(index_value < length)

\* Line 29: not (-length <= index_value < length)
out_of_range(index_value, length) ==
    ~(0 - length <= index_value /\ index_value < length)

\* Lines 24-31: the loop over the inferred values from the k-th on.
RECURSIVE index_loop(_, _, _)
index_loop(values, k, index_value) ==
    IF k > Len(values) THEN <<>>
    ELSE IF values[k] = Uninferable
         THEN index_loop(values, k + 1, index_value)
         ELSE IF /\ length_of(values[k]) # NoLength
                 /\ out_of_range(index_value, length_of(values[k]))
              THEN checker_add_message(<<>>, "E", {"0501", "W0502"}, "0501",
                                       "slice")
              ELSE index_loop(values, k + 1, index_value)

\* StaticIndexErrorChecker.check
static_index_error(node) ==
    IF node.slice.InferenceError THEN <<>>
    ELSE IF \/ node.slice.values = <<>>
            \/ node.slice.values[1] = Uninferable
         THEN checker_add_message(<<>>, "E", {"0501", "W0502"}, "W0502",
                                  "slice")
         ELSE IF \/ node.slice.values[1].kind # "Const"
                 \/ node.slice.values[1].pytype \notin {"int", "bool"}
              THEN <<>>
              ELSE index_loop(node.value.values, 1,
                              node.slice.values[1].value)

MaxBody == 2         \* statements of a loop body, and of a block nested in it

\* A statement of a loop body: break, pass, an expression, or an if whose
\* block holds the given simple statements.
Stmt(kind, body) == [kind |-> kind, body |-> body]

SimpleStmts == {Stmt(k, <<>>) : k \in {"Break", "Pass", "Expr"}}

Stmts ==
    SimpleStmts
        \cup {Stmt("If", b) : b \in UNION {[1..k -> SimpleStmts] : k \in 1..MaxBody}}

\* What node.test.infer() can give for a loop condition: True is the bool 1.
TestInferences ==
    {InferenceError, Inferred(<<>>), Inferred(<<Uninferable>>),
     Inferred(<<Const("bool", 1)>>), Inferred(<<Const("bool", 0)>>),
     Inferred(<<Const("int", 1)>>), Inferred(<<Text("str", 1)>>),
     Inferred(<<Const("bool", 1), Const("bool", 0)>>),
     Inferred(<<Const("bool", 0), Const("bool", 1)>>),
     Inferred(<<Uninferable, Const("bool", 1)>>)}

Whiles ==
    [test : TestInferences,
     body : UNION {[1..k -> Stmts] : k \in 1..MaxBody}]

\* A variant of is_while_true that takes any constant equal to 1 for True.
is_while_true_by_equality(test_inferred) ==
    /\ test_inferred # <<>>
    /\ test_inferred[1].kind = "Const"
    /\ test_inferred[1].pytype \in {"bool", "int"}
    /\ test_inferred[1].value = 1

\* Line 15: the first inferred value is a Const whose value is True.
is_while_true(test_inferred) ==
    /\ test_inferred # <<>>
    /\ test_inferred[1].kind = "Const"
    /\ test_inferred[1].pytype = "bool"
    /\ test_inferred[1].value = 1

\* Line 20: any(isinstance(sub_node, astroid.Break) for sub_node in node.body)
has_break(body) == \E i \in 1..Len(body) : body[i].kind = "Break"

\* StaticInfiniteLoopChecker.check
static_infinite_loop(node) ==
    IF node.test.InferenceError THEN <<>>
    ELSE IF is_while_true(node.test.values) /\ ~has_break(node.body)
         THEN checker_add_message(<<>>, "W", {"0701"}, "0701", "test")
         ELSE <<>>

\* What get_type_astroid gives for an operand: the type name of a constant,
\* the qualified name of the class of a container or instance, or None
\* (the empty string here).
TypeNames ==
    {"", "int", "float", "complex", "bool", "str", "bytes", "NoneType",
     "builtins.list", "builtins.tuple", "builtins.dict", "builtins.set",
     "m.C"}

\* The operators is_compatible_astroid is asked about.
Operators ==
    {"+", "-", "*", "/", "//", "%", "**", "<", "==", "&", "in", "and", "not"}

\* Lines 205-206: type_fq.split('.')[-1].lower()
last_lower(type_fq) ==
    CASE type_fq = "builtins.list" -> "list"
      [] type_fq = "builtins.tuple" -> "tuple"
      [] type_fq = "builtins.dict" -> "dict"
      [] type_fq = "builtins.set" -> "set"
      [] type_fq = "NoneType" -> "nonetype"
      [] type_fq = "m.C" -> "c"
      [] OTHER -> type_fq

numeric_types == {"int", "float", "complex", "bool"}

sequence_types == {"str", "list", "tuple", "bytes", "bytearray", "range"}

set_types == {"set", "frozenset"}

mapping_types == {"dict"}

\* Lines 211-226 of is_compatible_astroid, on the two short type names.
compatible_names(type1, type2, operator) ==
    IF /\ type1 \in numeric_types /\ type2 \in numeric_types
       /\ operator \in {"+", "-", "*", "/", "//", "%", "**", "<", "<=", ">", ">=",
                  "==", "!="}
    THEN ~("complex" \in {type1, type2} /\ operator \in {"<", "<=", ">", ">="})
    ELSE \/ /\ type1 \in {"int", "bool"} /\ type2 \in {"int", "bool"}
            /\ operator \in {"&", "|", "^", "<<", ">>", "~"}
         \/ /\ type1 \in sequence_types /\ type2 \in sequence_types
            /\ type1 = type2 /\ operator = "+"
         \/ /\ type1 \in {"str", "tuple", "list", "bytes", "bytearray"}
            /\ type1 = type2
            /\ operator \in {"==", "!=", "<", "<=", ">", ">="}
         \/ /\ operator = "*"
            /\ \/ type1 \in sequence_types /\ type2 = "int"
               \/ type1 = "int" /\ type2 \in sequence_types
         \/ operator = "%" /\ type1 = "str"
         \/ /\ type1 \in set_types /\ type2 \in set_types
            /\ operator \in {"|", "&", "-", "^", "<=", "<", ">=", ">", "==", "!="}
         \/ /\ operator \in {"in", "not in"}
            /\ type2 \in sequence_types \cup set_types \cup mapping_types
         \/ operator \in {"and", "or"}
         \/ operator = "not"
         \/ operator \in {"+", "-"} /\ type1 \in numeric_types

\* utils.is_compatible_astroid(type1_fq, type2_fq, operator)
is_compatible_astroid(type1_fq, type2_fq, operator) ==
    IF type1_fq = "" \/ type2_fq = "" THEN TRUE
    ELSE compatible_names(last_lower(type1_fq), last_lower(type2_fq), operator)

\* StaticTypeErrorChecker.check on a BinOp whose operands have the types
\* left_type and right_type.
static_type_error(node) ==
    IF node.left_type # "" /\ node.right_type # ""
    THEN IF ~is_compatible_astroid(node.left_type, node.right_type, node.op)
         THEN checker_add_message(<<>>, "E", {"0301"}, "0301", "node")
         ELSE <<>>
    ELSE <<>>

MaxCheckers == 2     \* checkers in the list of one Linter

\* Checker classes of the package by NAME, with the node_types each declares:
\* three registered ones, and StaticRecursionChecker, which declares none and
\* inherits the empty tuple of the base class.
AstroidCheckerClasses ==
    {[NAME |-> STATIC_CHECKERS_CLASSES[i].NAME,
      node_types |-> STATIC_CHECKERS_CLASSES[i].node_types] : i \in {1, 2, 8}}
        \cup {[NAME |-> "static-recursion", node_types |-> {}]}

\* Lists self.astroid_checkers can hold when a traversal starts:
\* _load_astroid_checkers fills the list only when it is empty.
CheckerLists ==
    UNION {[1..k -> AstroidCheckerClasses] : k \in 0..MaxCheckers}

\* Lines 184-187 of visit_astroid_node (and 68-73 of _build_and_visit_parso):
\* the checkers whose check is called on a node of class node_type, in the
\* order of the calls, from the k-th checker on.
RECURSIVE invoked_checkers(_, _, _)
invoked_checkers(checkers, node_type, k) ==
    IF k > Len(checkers) THEN <<>>
    ELSE (IF \/ checkers[k].node_types = {}
             \/ node_type \in checkers[k].node_types
          THEN <<checkers[k].NAME>>
          ELSE <<>>) \o invoked_checkers(checkers, node_type, k + 1)

\* An instance of a class as astroid infers it: the qualified name of its
\* class and whether getattr(node.attrname) finds the attribute on it.
Instance(qname, has_attr) == [kind |-> "Instance", qname |-> qname, has_attr |-> has_attr]

\* The constant None.
ConstNone == Const("NoneType", 0)

\* What node.expr.infer() can give for the object of an attribute access.
ExprInferences ==
    {[InferenceError |-> e, values |-> v] :
        e \in BOOLEAN,
        v \in UNION {[1..k -> {Uninferable, ConstNone, Instance("m.C", TRUE),
                               Instance("m.C", FALSE)}] :
                        k \in 0..MaxInferred}}

\* Lines 31-63 of StaticAttributeErrorChecker.check: the loop over the
\* inferred values from the k-th on; st holds the locals has_attribute,
\* none_error_reported and possible_types (without "Uninferable", which line
\* 68 filters out) and the messages added so far.
RECURSIVE attribute_loop(_, _, _)
attribute_loop(values, k, st) ==
    IF k > Len(values) THEN st
    ELSE IF values[k] = Uninferable THEN attribute_loop(values, k + 1, st)
    ELSE IF values[k] = ConstNone
         THEN attribute_loop(values, k + 1,
                 [st EXCEPT
                     !.reported =
                         IF st.none_error_reported THEN @
                         ELSE checker_add_message(@, "E", {"0401", "0402"},
                                                  "0402", "node"),
                     !.none_error_reported = TRUE])
    ELSE IF values[k].has_attr
         THEN [st EXCEPT !.possible_types = @ \cup {values[k].qname},
                         !.has_attribute = TRUE]
         ELSE attribute_loop(values, k + 1,
                 [st EXCEPT !.possible_types = @ \cup {values[k].qname}])

\* Lines 66-73: the generic message, when no value had the attribute, no
\* None was met and some type name is known.
attribute_report(st) ==
    IF ~st.has_attribute /\ ~st.none_error_reported /\ st.possible_types # {}
    THEN checker_add_message(st.reported, "E", {"0401", "0402"}, "0401",
                             "node")
    ELSE st.reported

\* StaticAttributeErrorChecker.check
static_attribute_error(node) ==
    IF node.expr.InferenceError \/ node.expr.values = <<>> THEN <<>>
    ELSE attribute_report(
            attribute_loop(node.expr.values, 1,
                [has_attribute |-> FALSE, none_error_reported |-> FALSE,
                 possible_types |-> {}, reported |-> <<>>]))

\* The first argument of a call: a string constant holding a path, of which
\* the file system says whether it is absolute and what os.path.exists
\* gives for it ("raises" when the call raises); another constant; or an
\* expression that is no constant.
PathConst(absolute, exists) == [kind |-> "Const", pytype |-> "str", absolute |-> absolute, exists |-> exists]

FileArgs ==
    {PathConst(a, e) : a \in BOOLEAN, e \in {"yes", "no", "raises"}}
        \cup {[kind |-> "Const", pytype |-> "int"], [kind |-> "Name"]}

\* A Call node: the callee (a Name or an Attribute, with its name) and the
\* positional arguments.
Calls ==
    [func : [kind : {"Name", "Attribute", "Call"}, name : {"open", "close"}],
     args : {<<>>} \cup {<<a>> : a \in FileArgs}]

\* Lines 14-19: is_open
is_open(func) ==
    \/ func.kind = "Name" /\ func.name = "open"
    \/ func.kind = "Attribute" /\ func.name = "open"

\* StaticFileNotFoundChecker.check
static_file_not_found(node) ==
    IF is_open(node.func) /\ node.args # <<>>
    THEN IF node.args[1].kind = "Const" /\ node.args[1].pytype = "str"
         THEN IF node.args[1].exists # "yes"
              THEN checker_add_message(<<>>, "E", {"0801"}, "0801", "node")
              ELSE <<>>
         ELSE checker_add_message(<<>>, "E", {"0801"}, "0801", "node")
    ELSE <<>>

MaxPos == 2          \* largest line and column of a position

\* (start line, start column, end line, end column) as a node can carry
\* them, 0 being 0 or None; a node whose attributes cannot be read; no node.
NodePositions ==
    {<<l, c, tl, ec>> : l \in 0..MaxPos, c \in 0..MaxPos, tl \in 0..MaxPos,
                        ec \in 0..MaxPos} \cup {BadPos, NonePos}

\* The errors grammar.iter_errors yields: parso positions have 1-based lines
\* and an end that is not before the start.
ParserErrors ==
    {[message |-> "invalid syntax", start_pos |-> <<l, c>>,
      end_pos |-> <<tl, ec>>] :
        l \in 1..MaxPos, c \in 0..MaxPos, tl \in 1..MaxPos, ec \in 0..MaxPos}
      \ {e \in [message : {"invalid syntax"},
                 start_pos : (1..MaxPos) \X (0..MaxPos),
                 end_pos : (1..MaxPos) \X (0..MaxPos)] :
             \/ e.end_pos[1] < e.start_pos[1]
             \/ e.end_pos[1] = e.start_pos[1] /\ e.end_pos[2] < e.start_pos[2]}

RTZeroDivisionCheck ==
    /\ call = <<"none">>
    /\ \E children \in ParsoTerms :
          /\ call' = <<"rt_zero_division", children>>
          /\ out' = rt_zero_division(children)
    /\ UNCHANGED <<scopeVars, facadeVars, suspended>>

StaticZeroDivisionCheck ==
    /\ call = <<"none">>
    /\ \E node \in BinOps :
          /\ call' = <<"static_zero_division", node>>
          /\ out' = static_zero_division(node)
    /\ UNCHANGED <<scopeVars, facadeVars, suspended>>

StaticIndexErrorCheck ==
    /\ call = <<"none">>
    /\ \E node \in Subscripts :
          /\ call' = <<"static_index_error", node>>
          /\ out' = static_index_error(node)
    /\ UNCHANGED <<scopeVars, facadeVars, suspended>>

StaticInfiniteLoopCheck ==
    /\ call = <<"none">>
    /\ \E node \in Whiles :
          /\ call' = <<"static_infinite_loop", node>>
          /\ out' = static_infinite_loop(node)
    /\ UNCHANGED <<scopeVars, facadeVars, suspended>>

StaticTypeErrorCheck ==
    /\ call = <<"none">>
    /\ \E node \in [op : Operators, left_type : TypeNames,
                    right_type : TypeNames] :
          /\ call' = <<"static_type_error", node>>
          /\ out' = static_type_error(node)
    /\ UNCHANGED <<scopeVars, facadeVars, suspended>>

DispatchNode ==
    /\ call = <<"none">>
    /\ \E checkers \in CheckerLists, node_type \in {"Name", "BinOp", "While"} :
          /\ call' = <<"dispatch", [checkers |-> checkers, type |-> node_type]>>
          /\ out' = invoked_checkers(checkers, node_type, 1)
    /\ UNCHANGED <<scopeVars, facadeVars, suspended>>

IsCompatibleCall ==
    /\ call = <<"none">>
    /\ \E type1 \in TypeNames, type2 \in TypeNames,
          operator \in {"+", "-", "*", "==", "!="} :
          /\ call' = <<"is_compatible_astroid",
                       [type1 |-> type1, type2 |-> type2, op |-> operator]>>
          /\ out' = <<is_compatible_astroid(type1, type2, operator)>>
    /\ UNCHANGED <<scopeVars, facadeVars, suspended>>

StaticAttributeErrorCheck ==
    /\ call = <<"none">>
    /\ \E node \in [expr : ExprInferences] :
          /\ call' = <<"static_attribute_error", node>>
          /\ out' = static_attribute_error(node)
    /\ UNCHANGED <<scopeVars, facadeVars, suspended>>

StaticFileNotFoundCheck ==
    /\ call = <<"none">>
    /\ \E node \in Calls :
          /\ call' = <<"static_file_not_found", node>>
          /\ out' = static_file_not_found(node)
    /\ UNCHANGED <<scopeVars, facadeVars, suspended>>

AddMessageCall ==
    /\ call = <<"none">>
    /\ \E pos \in NodePositions :
          /\ call' = <<"add_message", pos>>
          /\ out' = add_message(<<>>, "E0101", pos, "message")
    /\ UNCHANGED <<scopeVars, facadeVars, suspended>>

AddAstroidMessageCall ==
    /\ call = <<"none">>
    /\ \E pos \in NodePositions \ {NonePos} :
          /\ call' = <<"add_astroid_message", pos>>
          /\ out' = add_astroid_message(<<>>, "E0102", pos, "message")
    /\ UNCHANGED <<scopeVars, facadeVars, suspended>>

\* Lines 249-251 of analyze_code, for one error of the tolerant parser
SyntaxErrorEntry ==
    /\ call = <<"none">>
    /\ \E error \in ParserErrors :
          /\ call' = <<"syntax_error_entry", error>>
          /\ out' = <<syntax_error_entry(error)>>
    /\ UNCHANGED <<scopeVars, facadeVars, suspended>>

\* Lines 269-272 of analyze_code; lineno / offset 0 is 0 or None
ExceptSyntaxError ==
    /\ call = <<"none">>
    /\ \E e \in [lineno : 0..MaxPos, offset : 0..MaxPos] :
          /\ call' = <<"except_SyntaxError", e>>
          /\ out' = except_SyntaxError(<<>>, <<>>, e)
    /\ UNCHANGED <<scopeVars, facadeVars, suspended>>

CheckersNext ==
    \/ RTZeroDivisionCheck
    \/ StaticZeroDivisionCheck
    \/ StaticIndexErrorCheck
    \/ StaticInfiniteLoopCheck
    \/ StaticTypeErrorCheck
    \/ DispatchNode
    \/ IsCompatibleCall
    \/ StaticAttributeErrorCheck
    \/ StaticFileNotFoundCheck
    \/ AddMessageCall
    \/ AddAstroidMessageCall
    \/ SyntaxErrorEntry
    \/ ExceptSyntaxError

\* One direct call of a checker's check method or of a helper of utils.py.
SpecCheckers == Init /\ [][CheckersNext]_vars

(***************************************************************************)
(* The call graph, built by direct calls of its two methods                *)
(***************************************************************************)
MaxCalls == 3        \* calls made on one graph
MaxLine == 2         \* line numbers of call sites

\* The definitions of one source text: qualified name, kind and line.
Definitions ==
    {[name |-> "m.f", type |-> "function", lineno |-> 1],
     [name |-> "m.C", type |-> "class", lineno |-> 2]}

\* The (caller, callee) pairs of its calls; "" is a name that is not a
\* non-empty string.
CallPairs ==
    {<<"m.f", "m.C">>, <<"m.C", "m.f">>, <<"m.f", "m.f">>, <<"", "m.f">>}

\* The graph the calls so far have built (call[2] lists them).
Graph == IF call = <<"none">> THEN EmptyGraph ELSE out

History == IF call = <<"none">> THEN <<>> ELSE call[2]

\* add_node_to_graph(qname, type=..., lineno=...) for a definition
AddNodeToGraph ==
    /\ call = <<"none">> \/ (call[1] = "graph" /\ Len(call[2]) < MaxCalls)
    /\ \E d \in Definitions \cup {[name |-> "", type |-> "function", lineno |-> 1]} :
          /\ call' = <<"graph", Append(History,
                          [op |-> "node", a |-> d.name, b |-> "",
                           lineno |-> d.lineno])>>
          /\ out' = add_node_to_graph(Graph, d.name,
                        [type |-> d.type, lineno |-> d.lineno])
    /\ UNCHANGED <<scopeVars, facadeVars, suspended>>

\* add_edge_to_graph(caller, callee, type='calls', lineno=ln); ln 0 is None
AddEdgeToGraph ==
    /\ call = <<"none">> \/ (call[1] = "graph" /\ Len(call[2]) < MaxCalls)
    /\ \E e \in CallPairs, ln \in 0..MaxLine :
          /\ call' = <<"graph", Append(History,
                          [op |-> "edge", a |-> e[1], b |-> e[2],
                           lineno |-> ln])>>
          /\ out' = add_edge_to_graph(Graph, e[1], e[2], "calls", ln)
    /\ UNCHANGED <<scopeVars, facadeVars, suspended>>

GraphNext == AddNodeToGraph \/ AddEdgeToGraph

\* Any sequence of calls of the two graph methods on a fresh graph.
SpecGraph == Init /\ [][GraphNext]_vars

\* The numeric value a Python number literal denotes.
LiteralValue(v) == IF v = "1" THEN 1 ELSE 0

Reported(msg_id, node) == \E i \in 1..Len(out) : out[i] = <<msg_id, node>>

\* C12: every `/` or `//` whose right operand is a numeric literal equal to
\* zero gets a division-by-zero diagnostic anchored at that right operand, in
\* realtime mode for each division operator of a chained expression and in
\* static mode for the operation's right operand.
C12_DivisionByZeroReported ==
    /\ call[1] = "rt_zero_division"
          => \A k \in 1..(Len(call[2]) - 1) :
                (/\ call[2][k].type = "operator"
                 /\ call[2][k].value \in {"/", "//"}
                 /\ call[2][k + 1].type = "number"
                 /\ LiteralValue(call[2][k + 1].value) = 0)
                    => Reported("E0201", k + 1)
    /\ call[1] = "static_zero_division"
          => ((/\ call[2].op \in {"/", "//"}
               /\ call[2].literal
               /\ call[2].right.values[1].pytype \in {"int", "float"}
               /\ call[2].right.values[1].value = 0)
                  => Reported("E0201", "right"))

\* The inferred values of a list that are not Uninferable.
Inferable(values) == SelectSeq(values, LAMBDA v : v # Uninferable)

\* The subscript of the last call has an index inferred to the constant
\* integer i and an indexed expression inferred to one literal of length n.
LiteralSubscript(i, n) ==
    /\ call[1] = "static_index_error"
    /\ call[2].slice = Inferred(<<Const("int", i)>>)
    /\ ~call[2].value.InferenceError
    /\ Len(Inferable(call[2].value.values)) = 1
    /\ length_of(Inferable(call[2].value.values)[1]) = n

\* C13: for an index inferred to the constant integer i and an indexed
\* expression inferred to a literal list, tuple, string or bytes of length n,
\* the out-of-range diagnostic E0501 is emitted if and only if i < -n or
\* i >= n, and for -n <= i < n the checker emits nothing for the subscript.
C13_IndexOutOfRange ==
    \A i \in (0 - MaxSeqLen - 1)..(MaxSeqLen + 1), n \in 0..MaxSeqLen :
        LiteralSubscript(i, n)
            => /\ Reported("E0501", "slice") <=> (i < 0 - n \/ i >= n)
               /\ (0 - n <= i /\ i < n) => out = <<>>

\* A negative index just below the lower bound of a two-element literal is
\* reported.
C13_Witness ==
    /\ LiteralSubscript(0 - MaxSeqLen - 1, MaxSeqLen)
    /\ Reported("E0501", "slice")

\* The condition of the loop of the last call infers to the constant True.
ConditionIsTrue ==
    /\ ~call[2].test.InferenceError
    /\ call[2].test.values # <<>>
    /\ call[2].test.values[1] = Const("bool", 1)

\* A break statement occurs in the block, directly or in a nested block.
RECURSIVE ContainsBreak(_)
ContainsBreak(body) ==
    \E i \in 1..Len(body) :
        body[i].kind = "Break" \/ ContainsBreak(body[i].body)

\* C14: a while loop whose condition is the constant True yields exactly one
\* infinite-loop diagnostic (W0701) when its body contains no break, and none
\* when a break is a direct statement of its body; a loop whose condition is
\* not the constant True yields none.
C14_InfiniteLoop ==
    call[1] = "static_infinite_loop"
        => /\ (ConditionIsTrue /\ ~ContainsBreak(call[2].body))
                 => out = <<<<"W0701", "test">>>>
           /\ (ConditionIsTrue /\ has_break(call[2].body)) => out = <<>>
           /\ ~ConditionIsTrue => out = <<>>

\* `while True:` over a body without any break has been checked and reported.
C14_Witness ==
    /\ call[1] = "static_infinite_loop"
    /\ ConditionIsTrue
    /\ ~ContainsBreak(call[2].body)
    /\ Reported("W0701", "test")

\* The proper ancestors of node n.
RECURSIVE Ancestors(_, _)
Ancestors(T, n) ==
    IF Parent(T, n) = 0 THEN {}
    ELSE {Parent(T, n)} \cup Ancestors(T, Parent(T, n))

\* The name leaf n is bound in a scope that lexically encloses it: as a
\* parameter or an assignment target of its function, or in an outer scope up
\* to the module.
BoundInEnclosingScope(T, n) ==
    \E a \in Ancestors(T, n) :
        \E i \in 1..Len(T.binds[a]) : T.binds[a][i][1] = T.value[n]

\* C15: in realtime mode no undefined-name diagnostic (E0101) is positioned at
\* a name that is a parameter of the enclosing function, assigned in its
\* body, or defined in a lexically enclosing scope up to the module.
C15_BoundNamesNotReported ==
    (result.returned /\ input.mode = "realtime")
        => \A n \in 1..Len(ParsoTrees[input.code].type) :
              (/\ ParsoTrees[input.code].type[n] = "name"
               /\ BoundInEnclosingScope(ParsoTrees[input.code], n))
                  => CountAt(result.errors, "E0101",
                             <<"E0101">> \o parso_position(
                                 ParsoTrees[input.code].pos[n])) = 0

\* The uses of the parameter x, the local y and the module-level g in the
\* body of f have been checked, and the call has returned.
C15_Witness ==
    /\ result.returned /\ input.mode = "realtime" /\ input.code = 3
    /\ Logged(linter, <<"check", 1, 12>>)
    /\ Logged(linter, <<"check", 1, 13>>)
    /\ Logged(linter, <<"check", 1, 14>>)
    /\ ~HasType(result.errors, "E0101")

\* A realtime call whose parser, scope builder and checkers all did their
\* work has returned.
RealtimeClean ==
    /\ result.returned /\ input.mode = "realtime"
    /\ input.grammar_ok /\ input.parse \in {"ok", "iter_raises"}
    /\ 1 \notin input.rt_init_fail
    /\ input.faults = {} /\ input.pop_raise = 0

\* The same for a static call.
StaticClean ==
    /\ result.returned /\ input.mode = "static" /\ input.parse = "ok"
    /\ 1 \notin input.st_init_fail
    /\ input.faults = {} /\ input.trav_raise = 0

\* The name leaf n resolves through the scope chain or the built-in set.
Resolves(T, n) == T.value[n] \in Builtins \/ BoundInEnclosingScope(T, n)

\* The name leaf n is a use: not the attribute of a trailer, not the name of a
\* keyword argument.
NameUse(T, n) ==
    T.type[n] = "name" /\ n \notin T.is_attribute /\ n \notin T.is_keyword

RTNameErrorsAt(n) ==
    CountAt(result.errors, "E0101",
            <<"E0101">> \o parso_position(ParsoTrees[input.code].pos[n]))

\* Static mode: the Name nodes whose lookup finds no definition get exactly
\* one E0102 diagnostic at their position, the other Name nodes none.
StaticNamesReported ==
    StaticClean
        => \A n \in 1..Len(AstroidTrees[input.code].type) :
              AstroidTrees[input.code].type[n] = "Name"
                 => CountAt(result.errors, "E0102",
                            <<"E0102">> \o astroid_position(
                                AstroidTrees[input.code].pos[n]))
                    = IF AstroidTrees[input.code].finding[1][n] # 0 THEN 1
                      ELSE 0

C17_CallGraphIffStaticParsed ==
    result.returned
        => (result.call_graph # NoGraph <=> (input.mode = "static" /\ tree))

\* Node n of parso tree T is a `while True` loop without a break: its first
\* child is the keyword True and no node below it is the keyword break.
RECURSIVE Descendants(_, _)
Descendants(T, n) ==
    {T.children[n][i] : i \in 1..Len(T.children[n])}
        \cup UNION {Descendants(T, T.children[n][i]) :
                       i \in 1..Len(T.children[n])}

WhileTrueWithoutBreak(T, n) ==
    /\ T.type[n] = "while_stmt"
    /\ T.type[T.children[n][1]] = "keyword"
    /\ T.value[T.children[n][1]] = "True"
    /\ \A d \in Descendants(T, n) : T.value[d] # "break"

\* C18: in realtime mode a `while True` loop without a break yields an
\* infinite-loop diagnostic: the result holds a diagnostic positioned at the
\* loop's condition.
C18_RealtimeInfiniteLoop ==
    RealtimeClean
        => \A n \in 1..Len(ParsoTrees[input.code].type) :
              WhileTrueWithoutBreak(ParsoTrees[input.code], n)
                 => \E i \in 1..Len(result.errors) :
                       /\ result.errors[i].line
                             = ParsoTrees[input.code].pos[
                                  ParsoTrees[input.code].children[n][1]][1]
                       /\ result.errors[i].column
                             = ParsoTrees[input.code].pos[
                                  ParsoTrees[input.code].children[n][1]][2]

ArithmeticOperators == {"+", "-", "*", "/", "//", "%", "**"}

NumericTypeNames == {"int", "float", "complex", "bool"}

NonNumericTypeNames ==
    {"str", "bytes", "builtins.list", "builtins.tuple", "builtins.dict",
     "builtins.set"}

SequenceTypeNames == {"str", "bytes", "builtins.list", "builtins.tuple"}

\* sequence * int and int * sequence
Repetition(operator, a, b) ==
    /\ operator = "*"
    /\ \/ a \in SequenceTypeNames /\ b = "int"
       \/ a = "int" /\ b \in SequenceTypeNames

\* C19: for an arithmetic operator and operands of which one is numeric and
\* the other non-numeric, sequence repetition apart, the type-error checker
\* reports E0301 at the operation, whichever operand is on the left.
C19_MixedOperandsIncompatible ==
    call[1] = "static_type_error"
        => ((/\ call[2].op \in ArithmeticOperators
             /\ \/ /\ call[2].left_type \in NumericTypeNames
                   /\ call[2].right_type \in NonNumericTypeNames
                \/ /\ call[2].left_type \in NonNumericTypeNames
                   /\ call[2].right_type \in NumericTypeNames
             /\ ~Repetition(call[2].op, call[2].left_type,
                            call[2].right_type))
                => Reported("E0301", "node"))

InProgress == {"init", "parsed", "analyzed"}

\* The result r of a call with input I equals the result the host remembers
\* for that input.
AsRemembered(I, r) ==
    (r.returned /\ remembered # NoMemory /\ remembered.input = I)
        => /\ r.errors = remembered.result.errors
           /\ r.call_graph = remembered.result.call_graph

\* C20: two calls whose steps interleave arbitrarily each return what a call
\* with the same (source, mode) returns otherwise: whichever of the two calls
\* has returned, and whatever the other one did in between, its result is
\* the one the host remembers for that input.
C20_InterleavedCallsIndependent ==
    /\ pc = "idle" => AsRemembered(input, result)
    /\ suspended.pc = "idle" => AsRemembered(suspended.input, suspended.result)

\* A call returns diagnostics while a call of the other mode is suspended in
\* mid-flight, and the host remembers an earlier call with the same input.
C20_Witness ==
    /\ pc = "idle" /\ result.returned
    /\ suspended.pc \in InProgress
    /\ {input.mode, suspended.input.mode} = {"realtime", "static"}
    /\ remembered # NoMemory /\ remembered.input = input
    /\ remembered.between
    /\ result.errors # <<>>

\* The names of the checkers of a list that declare node_type among their
\* node kinds, in the order of the list.
DeclaringCheckers(checkers, node_type) ==
    LET Declares(c) == node_type \in c.node_types
        S == SelectSeq(checkers, Declares)
    IN  [i \in 1..Len(S) |-> S[i].NAME]

\* C21: on a visited node, check is invoked on exactly the checkers of the
\* list whose declared node kinds include the kind of the node, in the order
\* of the list; a checker that declares no node kinds is invoked on no node.
C21_DispatchByDeclaredKinds ==
    call[1] = "dispatch"
        => out = DeclaringCheckers(call[2].checkers, call[2].type)

\* C22: when populating the scope of one function, lambda or class node
\* raises during the realtime traversal, every checker is still dispatched on
\* the nodes outside that node's subtree (its siblings and the nodes that
\* follow it), and the findings on them are in the result.
C22_ScopeFailureContained ==
    (/\ result.returned /\ input.mode = "realtime" /\ tree
     /\ input.pop_raise \in ScopeNodes(input.code) \ {1})
        => \A n \in 1..Len(ParsoTrees[input.code].type) :
              n \notin Descendants(ParsoTrees[input.code], input.pop_raise)
                          \cup {input.pop_raise}
                 => /\ Logged(linter, <<"visit", n, 0>>)
                    /\ \A k \in 1..Len(linter.parso_checkers) :
                          Matches(input, linter.parso_checkers[k], n)
                             => Logged(linter, <<"check",
                                         linter.parso_checkers[k], n>>)

\* The nearest scope-defining node that is n itself or an ancestor of n
\* (0 for no node).
RECURSIVE EnclosingScopeNode(_, _)
EnclosingScopeNode(T, n) ==
    IF n = 0 THEN 0
    ELSE IF T.type[n] \in {"file_input", "funcdef", "classdef", "lambdef"}
         THEN n
         ELSE EnclosingScopeNode(T, Parent(T, n))

\* C23: during a realtime traversal the scope map holds one Scope per
\* scope-defining node, each under its own node; the module scope is the only
\* one without a parent; the parent of any other scope is the scope of the
\* nearest enclosing scope-defining node; and the scope a checker receives for
\* a node is the scope of the nearest scope-defining node at or above it.
C23_ScopeTree ==
    input.mode = "realtime" =>
        /\ \A n \in DOMAIN linter.scope_map :
              /\ n \in ScopeNodes(input.code)
              /\ linter.scope_map[n].node = n
              /\ linter.scope_map[n].parent = NoScope <=> n = 1
              /\ n # 1 => /\ linter.scope_map[n].parent =
                               EnclosingScopeNode(ParsoTrees[input.code],
                                   Parent(ParsoTrees[input.code], n))
                          /\ linter.scope_map[n].parent
                                \in DOMAIN linter.scope_map
        /\ \A i \in 1..Len(linter.log) :
              linter.log[i][1] = "scope"
                 => /\ linter.log[i][3] \in DOMAIN linter.scope_map
                    /\ linter.log[i][3] =
                          EnclosingScopeNode(ParsoTrees[input.code],
                                             linter.log[i][2])

\* The traversal of `class C: lambda: z` has built the three nested scopes
\* and handed the scope of the lambda to the name checker for z.
C23_Witness ==
    /\ result.returned /\ input.mode = "realtime" /\ input.code = 2
    /\ DOMAIN linter.scope_map = {1, 2, 4}
    /\ linter.scope_map[4].parent = 2
    /\ linter.scope_map[2].parent = 1
    /\ Logged(linter, <<"scope", 5, 4>>)
    /\ Logged(linter, <<"check", 1, 5>>)

\* C24: for the commutative arithmetic operators and the equality
\* comparisons, + * == and !=, the compatibility of two operand types does not
\* depend on their order: is_compatible(t1, t2, op) = is_compatible(t2, t1, op).
C24_CompatibilitySymmetric ==
    (call[1] = "is_compatible_astroid" /\ call[2].op \in {"+", "*", "==", "!="})
        => out[1] = is_compatible_astroid(call[2].type2, call[2].type1,
                                          call[2].op)

\* C25: in the missing-attribute check, whenever the constant None is among
\* the inferred values of the object expression, the NoneType diagnostic
\* (E0402) is emitted at the attribute access, wherever None stands in the
\* inferred sequence and whatever the other values expose; and E0402 and the
\* generic E0401 are never both emitted for one attribute node.
C25_NoneAttributeReported ==
    call[1] = "static_attribute_error"
        => /\ (/\ ~call[2].expr.InferenceError
               /\ \E i \in 1..Len(call[2].expr.values) :
                     call[2].expr.values[i] = ConstNone)
                  => Reported("E0402", "node")
           /\ ~(Reported("E0402", "node") /\ Reported("E0401", "node"))

\* C26: the missing-file checker emits its diagnostic (E0801) only for a call
\* of the built-in open whose first argument is a string literal holding a
\* relative path that does not exist; it emits nothing when the first
\* argument is no string literal, when the path is absolute, or when the path
\* exists.
C26_MissingFileOnlyRelativeLiteral ==
    call[1] = "static_file_not_found"
        => (Reported("E0801", "node")
               => /\ call[2].func = [kind |-> "Name", name |-> "open"]
                  /\ call[2].args # <<>>
                  /\ call[2].args[1].kind = "Const"
                  /\ call[2].args[1].pytype = "str"
                  /\ ~call[2].args[1].absolute
                  /\ call[2].args[1].exists # "yes")

\* The non-null line numbers the calls so far passed for the pair e.
LinesPassed(e) ==
    {History[i].lineno : i \in {j \in 1..Len(History) :
        History[j].op = "edge" /\ <<History[j].a, History[j].b>> = e}} \ {0}

\* C27: after any sequence of add_edge_to_graph calls both endpoints of every
\* edge are nodes of the graph, and the call_sites of each (caller, callee)
\* edge is the ascending list, without duplicates, of exactly the non-null
\* line numbers passed for the pair; it is absent only when every call for
\* the pair passed no line number.
C27_EdgeCallSites ==
    call[1] = "graph" =>
        \A e \in DOMAIN out.edges :
            /\ e[1] \in DOMAIN out.nodes /\ e[2] \in DOMAIN out.nodes
            /\ IF LinesPassed(e) = {}
               THEN "call_sites" \notin DOMAIN out.edges[e]
               ELSE /\ "call_sites" \in DOMAIN out.edges[e]
                    /\ Range(out.edges[e].call_sites) = LinesPassed(e)
                    /\ \A i, j \in 1..Len(out.edges[e].call_sites) :
                          i < j => out.edges[e].call_sites[i]
                                      < out.edges[e].call_sites[j]

\* Three calls for one pair: line 2, then line 1, then line 1 again.
C27_Witness ==
    /\ call[1] = "graph" /\ Len(call[2]) = 3
    /\ \A i \in 1..3 : call[2][i].op = "edge" /\ call[2][i].a = "m.f"
                                             /\ call[2][i].b = "m.C"
    /\ call[2][1].lineno = 2 /\ call[2][2].lineno = 1 /\ call[2][3].lineno = 1
    /\ out.edges[<<"m.f", "m.C">>].call_sites = <<1, 2>>

\* C30: a function or class that add_node_to_graph has recorded as a
\* definition has the type and the line number of the definition, whether
\* the add_edge_to_graph calls that mention its name came before or after;
\* 'unknown' never replaces 'function' or 'class'.
C30_NodeTypeOrderIndependent ==
    call[1] = "graph" =>
        \A d \in Definitions :
            (\E i \in 1..Len(call[2]) :
                call[2][i].op = "node" /\ call[2][i].a = d.name)
               => /\ d.name \in DOMAIN out.nodes
                  /\ out.nodes[d.name].type = d.type
                  /\ out.nodes[d.name].lineno = d.lineno

\* The class is mentioned by an edge, then defined, then mentioned again.
C30_Witness ==
    /\ call[1] = "graph" /\ Len(call[2]) = 3
    /\ call[2][1].op = "edge" /\ call[2][1].b = "m.C"
    /\ call[2][2].op = "node" /\ call[2][2].a = "m.C"
    /\ call[2][3].op = "edge" /\ call[2][3].a = "m.C"
    /\ out.nodes["m.C"] = [type |-> "class", lineno |-> 2]
    /\ out.nodes["m.f"].type = "unknown"

\* C28: a `while True` loop whose break statements are nested inside a block
\* of its body yields no infinite-loop diagnostic: W0701 is emitted only when
\* no break occurs anywhere within the body, directly or in a nested block.
C28_NestedBreakNotReported ==
    call[1] = "static_infinite_loop"
        => (Reported("W0701", "test") => ~ContainsBreak(call[2].body))

\* The position model: 1-based line, 0-based column, an end that is not
\* before the start and at least one column wide.
WellPositioned(d) ==
    /\ d.line >= 1 /\ d.column >= 0
    /\ d.to_line >= d.line /\ d.end_column >= d.column + 1

====
